---- MODULE Spec2Model ----
(***************************************************************************)
(* A model of npillmayer/arithm: the incremental linear-equation solver   *)
(* (package polyn) and the validation / segmentation front end of the     *)
(* Hobby spline solver (package jhobby).                                  *)
(*                                                                         *)
(* Numbers.  A float64 is modelled as an exact rational [n, d] with d > 0 *)
(* and gcd(n, d) = 1.  The rounding error of float64 arithmetic (about    *)
(* 1e-16 relative) is not modelled; every comparison against Epsilon and  *)
(* the rounding to Epsilon of arithm.Round are modelled exactly.          *)
(***************************************************************************)
EXTENDS Integers, Sequences, FiniteSets, TLC

\* ------------------------------------------------------------------------
\* Rational arithmetic (the carrier of float64 values)
\* ------------------------------------------------------------------------

Abs(n) == IF n < 0 THEN -n ELSE n

RECURSIVE Gcd(_, _)
Gcd(a, b) == IF b = 0 THEN a ELSE Gcd(b, a % b)

Rat(n, d) ==
    LET s == IF d < 0 THEN -1 ELSE 1
        g == Gcd(Abs(n), Abs(d))
    IN  [n |-> (s * n) \div g, d |-> (s * d) \div g]

R(n) == [n |-> n, d |-> 1]

RNeg(x) == [n |-> -x.n, d |-> x.d]

RAbs(x) == [n |-> Abs(x.n), d |-> x.d]

RAdd(x, y) ==
    LET g  == Gcd(x.d, y.d)
        lx == y.d \div g
        ly == x.d \div g
    IN  Rat(x.n * lx + y.n * ly, x.d * lx)

RSub(x, y) == RAdd(x, RNeg(y))

RMul(x, y) ==
    IF x.n = 0 \/ y.n = 0 THEN R(0)
    ELSE LET g1 == Gcd(Abs(x.n), y.d)
             g2 == Gcd(Abs(y.n), x.d)
         IN  [n |-> (x.n \div g1) * (y.n \div g2),
              d |-> (x.d \div g2) * (y.d \div g1)]

\* 1/x for x # 0
RInv(x) == IF x.n < 0 THEN [n |-> -x.d, d |-> -x.n] ELSE [n |-> x.d, d |-> x.n]

RDiv(x, y) == RMul(x, RInv(y))

\* x < y
RLt(x, y) ==
    LET d == RSub(x, y) IN d.n < 0

RLe(x, y) == ~RLt(y, x)

\* ------------------------------------------------------------------------
\* package arithm: numeric tolerance
\* ------------------------------------------------------------------------

\* Epsilon = 0.0000001 = 1 / EpsDen
EpsDen == 10000000

Epsilon == [n |-> 1, d |-> EpsDen]

\* math.Abs(n) <= Epsilon, i.e. |n.n| * EpsDen <= n.d
Is0(x) == Abs(x.n) <= x.d \div EpsDen

Is1(x) == Is0(RSub(R(1), x))

arithmZap(x) == IF Is0(x) THEN R(0) ELSE x

\* math.Round(a / b): nearest integer, halves away from zero (b > 0)
RoundDiv(a, b) ==
    LET q == Abs(a) \div b
        r == Abs(a) % b
        m == IF 2 * r >= b THEN q + 1 ELSE q
    IN  IF a < 0 THEN -m ELSE m

\* math.Round(n / Epsilon) * Epsilon
Round(x) ==
    LET sg == IF x.n < 0 THEN -1 ELSE 1
        q  == Abs(x.n) \div x.d          \* integer part: rounds to itself
        r  == Abs(x.n) % x.d
        g  == Gcd(EpsDen, x.d)
        k  == RoundDiv(r * (EpsDen \div g), x.d \div g)
    IN  RAdd(R(sg * q), Rat(sg * k, EpsDen))

\* ------------------------------------------------------------------------
\* package polyn: Polynomial (a sparse map  key -> coefficient, key 0 = c)
\* A Polynomial is a function whose DOMAIN is the set of stored keys.
\* ------------------------------------------------------------------------

\* ascending key order (sort.Ints)
RECURSIVE SortedSeq(_)
SortedSeq(S) ==
    IF S = {} THEN <<>>
    ELSE LET m == CHOOSE x \in S : \A y \in S : x <= y
         IN  <<m>> \o SortedSeq(S \ {m})

Exponents(p) == SortedSeq(DOMAIN p)

GetCoeffForTerm(p, i) == IF i \in DOMAIN p THEN p[i] ELSE R(0)

GetConstantValue(p) == GetCoeffForTerm(p, 0)

SetTerm(p, i, scale) ==
    [k \in DOMAIN p \cup {i} |-> IF k = i THEN scale ELSE p[k]]

\* delete(p.terms, i)
DeleteTerm(p, i) == [k \in DOMAIN p \ {i} |-> p[k]]

TermCount(p) == Cardinality(DOMAIN p)

termlength(p) == TermCount(p)

ZapMutant(p) ==
    LET keep == {k \in DOMAIN p : ~Is0(p[k])}
    IN  [k \in keep |-> p[k]]

\* Zap: drop every stored term with Is0(coefficient), then re-introduce key 0
Zap(p) ==
    LET keep == {k \in DOMAIN p : ~Is0(p[k])}
    IN  [k \in keep \cup {0} |-> IF k \in keep THEN p[k] ELSE R(0)]

NewConstantPolynomial(c) == Zap([k \in {0} |-> c])

\* New(c, tms...): tms is a sequence of terms [I, C]; terms with I < 1 are skipped
RECURSIVE NewTerms(_, _)
NewTerms(p, tms) ==
    IF tms = <<>> THEN p
    ELSE LET t == Head(tms)
         IN  NewTerms(IF t.I < 1 THEN p ELSE SetTerm(p, t.I, t.C), Tail(tms))

New(c, tms) == NewTerms(NewConstantPolynomial(c), tms)

X(i, c) == [I |-> i, C |-> c]

IsConstant(p) == [c |-> GetCoeffForTerm(p, 0), isconst |-> TermCount(p) = 1]

isOff(p) ==
    IF IsConstant(p).isconst THEN [coeff |-> IsConstant(p).c, off |-> TRUE]
    ELSE [coeff |-> R(0), off |-> FALSE]

\* CopyPolynomial: a fresh constant polynomial 0 receives every term of p
CopyPolynomial(p) ==
    [k \in DOMAIN p \cup {0} |-> IF k \in DOMAIN p THEN p[k] ELSE R(0)]

\* One ascending scan of maxCoeff: strictly greater |c| wins, so the smallest
\* key among equal maxima is kept.  skip = the keys of `dependents`.
RECURSIVE maxCoeffScan(_, _, _, _)
maxCoeffScan(p, keys, skip, best) ==
    IF keys = <<>> THEN best
    ELSE LET i == Head(keys)
             c == p[i]
         IN  IF i = 0 \/ i \in skip
             THEN maxCoeffScan(p, Tail(keys), skip, best)
             ELSE IF RLt(best.maxc, RAbs(c))
                  THEN maxCoeffScan(p, Tail(keys), skip,
                                    [maxc |-> RAbs(c), maxp |-> i, coeff |-> c])
                  ELSE maxCoeffScan(p, Tail(keys), skip, best)

maxCoeffMutant(p, depKeys, isnil) ==
    LET start == [maxc |-> R(0), maxp |-> 0, coeff |-> R(0)]
        found(res) == [maxp |-> res.maxp, coeff |-> res.coeff, panic |-> res.maxp = 0]
    IN  found(maxCoeffScan(p, Exponents(p), IF isnil THEN {} ELSE depKeys, start))

\* maxCoeff(dependents): depKeys = keys of dependents, isnil = (dependents == nil).
\* maxp = 0 stands for the panic "seeing equation 0 = c".
maxCoeff(p, depKeys, isnil) ==
    LET start == [maxc |-> R(0), maxp |-> 0, coeff |-> R(0)]
        \* "if maxp == 0 && dependents != nil": scan again without skipping
        retry(free) ==
            IF free.maxp = 0 /\ ~isnil
            THEN maxCoeffScan(p, Exponents(p), {}, start)
            ELSE free
        found(res) == [maxp |-> res.maxp, coeff |-> res.coeff, panic |-> res.maxp = 0]
    IN  found(retry(maxCoeffScan(p, Exponents(p), IF isnil THEN {} ELSE depKeys, start)))

\* addOrSub: the receiver is a value, so `p.terms = p1.terms` under the
\* destructive flag never reaches the caller; the result is the return value.
addOrSub(p, p2, doAdd) ==
    LET p1   == CopyPolynomial(p)
        hits == {k \in DOMAIN p2 : ~Is0(p2[k])}
    IN  [k \in DOMAIN p1 \cup hits |->
            IF k \in hits
            THEN IF doAdd THEN RAdd(GetCoeffForTerm(p1, k), p2[k])
                          ELSE RSub(GetCoeffForTerm(p1, k), p2[k])
            ELSE p1[k]]

Add(p, p2) == addOrSub(p, p2, TRUE)

Subtract(p, p2) == addOrSub(p, p2, FALSE)

MultiplyMutant(p, p2) ==
    LET p1 == CopyPolynomial(p)
        c2 == IsConstant(CopyPolynomial(p2))
    IN  IF ~c2.isconst THEN [err |-> "ErrNonConstantProduct", p |-> <<>>]
        ELSE [err |-> "nil",
              p   |-> Zap([k \in DOMAIN p1 |-> arithmZap(RMul(p1[k], c2.c))])]

\* Multiply: one operand must be constant; every coefficient of the other is
\* scaled by it (arithm.Zap on each product), then the result is zapped.
Multiply(p, p2) ==
    LET p1  == CopyPolynomial(p)
        p2c == CopyPolynomial(p2)
        c2  == IsConstant(p2c)
        c1  == IsConstant(p1)
        ok  == c2.isconst \/ c1.isconst
        c   == IF c2.isconst THEN c2.c ELSE c1.c
        pp  == IF c2.isconst THEN p1 ELSE p2c
    IN  IF ~ok THEN [err |-> "ErrNonConstantProduct", p |-> <<>>]
        ELSE [err |-> "nil",
              p   |-> Zap([k \in DOMAIN pp |-> arithmZap(RMul(pp[k], c))])]

Divide(p, p2) ==
    LET c == IsConstant(p2)
    IN  IF ~c.isconst \/ Is0(c.c) THEN [err |-> "ErrIllegalDivisor", p |-> <<>>]
        ELSE Multiply(p, NewConstantPolynomial(RDiv(R(1), c.c)))


\* ------------------------------------------------------------------------
\* package polyn: LinEqSolver
\* An EquationMap / SolvedMap is a function  variable id -> Polynomial.
\* ------------------------------------------------------------------------

EmptyMap == [k \in {} |-> <<>>]

MapPut(m, i, p) == [k \in DOMAIN m \cup {i} |-> IF k = i THEN p ELSE m[k]]

MapDelete(m, i) == [k \in DOMAIN m \ {i} |-> m[k]]

\* solved(p): a constant polynomial solves its equation; its value is rounded
solved(p) ==
    IF IsConstant(p).isconst
    THEN [ok |-> TRUE, p |-> SetTerm(p, 0, Round(IsConstant(p).c))]
    ELSE [ok |-> FALSE, p |-> p]

termContains(p, i) == ~Is0(GetCoeffForTerm(p, i))

\* updateDependency: insert x.i = p, or replace an existing x.i = q only if
\* p has fewer terms than q
updateDependency(i, p, m) ==
    IF i \in DOMAIN m
    THEN IF termlength(CopyPolynomial(p)) < termlength(m[i])
         THEN MapPut(m, i, CopyPolynomial(p))
         ELSE m
    ELSE MapPut(m, i, CopyPolynomial(p))

\* substituteSolved: for every solved x.i = c (ascending), replace a.i*x.i in p
\* by the constant a.i*c.  p is changed in place; the result is that p.
substituteSolvedMutant(j, p, solvedMap) == p

RECURSIVE substituteSolvedLoop(_, _, _)
substituteSolvedLoop(p, keys, solvedMap) ==
    IF keys = <<>> THEN p
    ELSE LET i     == Head(keys)
             c     == GetConstantValue(solvedMap[i])
             coeff == GetCoeffForTerm(p, i)
         IN  IF ~Is0(coeff)
             THEN substituteSolvedLoop(
                      DeleteTerm(SetTerm(p, 0, RAdd(GetConstantValue(p), RMul(coeff, c))), i),
                      Tail(keys), solvedMap)
             ELSE substituteSolvedLoop(p, Tail(keys), solvedMap)

substituteSolved(j, p, solvedMap) ==
    substituteSolvedLoop(p, SortedSeq(DOMAIN solvedMap), solvedMap)

\* activateEquationTowards: 0 = p(a x.i)  becomes  x.i = -1/a * p(...)
activateEquationTowards(i, p) ==
    LET coeff == GetCoeffForTerm(p, i)
        zapped(m) == IF m.err # "nil" THEN m ELSE [err |-> "nil", p |-> Zap(m.p)]
    IN  IF Is0(coeff) THEN [err |-> "zero coefficient", p |-> <<>>]
        ELSE zapped(Multiply(DeleteTerm(p, i),
                             NewConstantPolynomial(RDiv(R(-1), coeff))))

\* subst: substitute x.i = p(i) for x.i in x.j = q(j).  Returns the new left-hand
\* side j (0 when x.j was eliminated) and the new q.  `inplace` is what the map
\* of the q that was passed in holds afterwards: delete(q.terms, i) acts on the
\* caller's map, every later step acts on a fresh polynomial.
subst(i, p, j, q) ==
    LET ai == GetCoeffForTerm(q, i)
        q0 == DeleteTerm(q, i)
        \* q, err = q.Multiply(NewConstantPolynomial(a), false)
        rescaled(qm) ==
            IF qm.err # "nil"
            THEN [j |-> 0, q |-> <<>>, err |-> qm.err, inplace |-> q0]
            ELSE [j |-> j, q |-> Zap(qm.p), err |-> "nil", inplace |-> q0]
        \* aj = the coefficient of x.j in q after the substitution
        normalize(q1, aj) ==
            IF Is0(aj)
            THEN [j |-> j, q |-> q1, err |-> "nil", inplace |-> q0]
            ELSE IF Is1(aj)
            THEN [j |-> 0, q |-> DeleteTerm(q1, j), err |-> "nil", inplace |-> q0]
            ELSE rescaled(Multiply(DeleteTerm(q1, j),
                                   NewConstantPolynomial(RDiv(R(-1), RSub(aj, R(1))))))
        added(q1) == normalize(q1, GetCoeffForTerm(q1, j))
        \* ps = p.Multiply(NewConstantPolynomial(ai), false)
        substituted(ps) ==
            IF ps.err # "nil"
            THEN [j |-> 0, q |-> <<>>, err |-> ps.err, inplace |-> q0]
            ELSE added(Zap(Add(q0, ps.p)))
    IN  IF Is0(ai) THEN [j |-> j, q |-> q, err |-> "nil", inplace |-> q]
        ELSE substituted(Multiply(p, NewConstantPolynomial(ai)))


\* One iteration of the loop of updateDependentVariables over the dependent
\* x.j0 = deps[j0].  acc = [D, deps, err]: D is the new set D' under
\* construction; deps is leq.dependents, whose polynomials are shared with the
\* loop variable q and so see the in-place delete of subst.
udvInsert(acc, savei, j, q, i, p, aliased, j0) ==
    \* from "(3)": substitute if q contains x.i
    LET \* r = subst(i, p, j, q); deps1 = leq.dependents after its in-place delete
        substituted(r, deps1) ==
            LET activated(mc, act) ==
                    IF mc.panic
                    THEN [D |-> acc.D, deps |-> deps1, err |-> "panic"]
                    ELSE IF act.err # "nil"
                    THEN [D |-> acc.D, deps |-> deps1, err |-> act.err]
                    ELSE [D |-> updateDependency(mc.maxp, act.p, acc.D),
                          deps |-> deps1, err |-> "nil"]
                towards(mc) == activated(mc, activateEquationTowards(mc.maxp, r.q))
                eliminated(off) ==
                    IF ~off.off
                    THEN towards(maxCoeff(r.q, DOMAIN acc.D, FALSE))
                    ELSE IF ~Is0(off.coeff)
                    THEN [D |-> acc.D, deps |-> deps1, err |-> "ErrInconsistentEquation"]
                    ELSE [D |-> acc.D, deps |-> deps1, err |-> "nil"]
            IN  IF r.err # "nil" THEN [D |-> acc.D, deps |-> deps1, err |-> r.err]
                ELSE IF r.j # 0
                THEN [D |-> updateDependency(r.j, r.q, acc.D), deps |-> deps1, err |-> "nil"]
                ELSE eliminated(isOff(r.q))
        aliasing(r) ==
            substituted(r, IF aliased THEN MapPut(acc.deps, j0, r.inplace) ELSE acc.deps)
    IN  IF ~termContains(q, i) THEN acc
        ELSE aliasing(subst(i, p, j, q))

udvSwap(acc, savei, j, q, aliased, j0) ==
    \* from "(2)": insert the original dependency, then orient the pair
    LET p    == CopyPolynomial(acc.D[savei])
        acc1 == [D |-> updateDependency(j, q, acc.D), deps |-> acc.deps, err |-> "nil"]
    IN  IF ~termContains(q, savei) /\ termContains(p, j)
        THEN udvInsert(acc1, savei, savei, p, j, q, FALSE, j0)
        ELSE udvInsert(acc1, savei, j, q, savei, p, aliased, j0)

udvStep(acc, savei, j0) ==
    LET q0 == acc.deps[j0]
        lhs == SetTerm(NewConstantPolynomial(R(0)), j0, R(-1))
        activated(mc, act) ==
            IF mc.panic
            THEN [D |-> acc.D, deps |-> acc.deps, err |-> "panic"]
            ELSE IF act.err # "nil"
            THEN [D |-> acc.D, deps |-> acc.deps, err |-> act.err]
            ELSE udvSwap(acc, savei, mc.maxp, act.p, FALSE, j0)
        towards(mc) == activated(mc, activateEquationTowards(mc.maxp, Add(q0, lhs)))
    IN  IF savei \notin DOMAIN acc.D
        THEN [D |-> acc.D, deps |-> acc.deps, err |-> "internal solver state"]
        ELSE IF j0 = savei
        THEN \* equations with identical left-hand side: re-activate q
             towards(maxCoeff(q0, DOMAIN acc.D, FALSE))
        ELSE udvSwap(acc, savei, j0, q0, TRUE, j0)

RECURSIVE udvLoop(_, _, _)
udvLoop(acc, savei, keys) ==
    IF keys = <<>> \/ acc.err # "nil" THEN acc
    ELSE udvLoop(udvStep(acc, savei, Head(keys)), savei, Tail(keys))

\* updateDependentVariables(i, p): returns D' (or an error), and what
\* leq.dependents holds afterwards
updateDependentVariables(dependents, i, p) ==
    udvLoop([D |-> updateDependency(i, p, EmptyMap), deps |-> dependents, err |-> "nil"],
            i, SortedSeq(DOMAIN dependents))


\* --- capsules ---------------------------------------------------------------

\* checkAndCountCapsule over all of dependents and solved: the number of
\* references to capsule c (left-hand sides, stored right-hand-side keys > 0,
\* solved keys).  caps = the ids for which the resolver's IsCapsule is true;
\* hasres = a resolver is set.
capsuleCount(dependents, solvedMap, c) ==
    Cardinality({w \in DOMAIN dependents : w = c})
    + Cardinality({w \in DOMAIN dependents : c > 0 /\ c \in DOMAIN dependents[w]})
    + Cardinality({j \in DOMAIN solvedMap : j = c})

retractVariableMutant(st, i) ==
    [dependents |-> MapDelete(st.dependents, i),
     solved     |-> MapDelete(st.solved, i),
     notes      |-> st.notes]

\* retractVariable(i)
retractVariable(st, i) ==
    LET deps1 == MapDelete(st.dependents, i)
        eqs   == {j \in DOMAIN deps1 : ~Is0(GetCoeffForTerm(deps1[j], i))}
    IN  [dependents |-> [j \in DOMAIN deps1 \ eqs |-> deps1[j]],
         solved     |-> MapDelete(st.solved, i),
         notes      |-> st.notes]

RECURSIVE retractAll(_, _)
retractAll(st, order) ==
    IF order = <<>> THEN st
    ELSE retractAll(retractVariable(st, Head(order)), Tail(order))

\* the capsules with count == 1, counted before any retraction
loners(st, caps, hasres) ==
    IF ~hasres THEN {}
    ELSE {c \in caps : capsuleCount(st.dependents, st.solved, c) = 1}

\* harvestCapsules: `range counts` visits the loners in an unspecified order;
\* desc selects the descending instead of the ascending order.
harvestCapsules(st, caps, hasres, desc) ==
    LET asc == SortedSeq(loners(st, caps, hasres))
        ord == IF desc THEN [k \in 1..Len(asc) |-> asc[Len(asc) + 1 - k]] ELSE asc
    IN  retractAll(st, ord)

\* --- addEq --------------------------------------------------------------------

\* "split solved x from D' off to S'"
RECURSIVE splitSolved(_, _, _)
splitSolved(D, S, keys) ==
    LET split(i, r) ==
            IF r.ok THEN splitSolved(MapDelete(D, i), MapPut(S, i, r.p), Tail(keys))
            ELSE splitSolved(D, S, Tail(keys))
    IN  IF keys = <<>> THEN [D |-> D, S |-> S]
        ELSE split(Head(keys), solved(D[Head(keys)]))

\* "substitute solved: subst s in S' into d in D'": each D'[i] is rewritten in
\* place with the S' of that moment; S' grows while the loop runs
RECURSIVE substSolvedAll(_, _, _)
substSolvedAll(D, S, keys) ==
    LET moved(i, p, r) ==
            IF r.ok THEN substSolvedAll(MapDelete(D, i), MapPut(S, i, r.p), Tail(keys))
            ELSE substSolvedAll(MapPut(D, i, p), S, Tail(keys))
        rewritten(i, p) == moved(i, p, solved(p))
    IN  IF keys = <<>> THEN [D |-> D, S |-> S]
        ELSE rewritten(Head(keys), substituteSolved(Head(keys), D[Head(keys)], S))

setSolvedAllMutant(st, S, keys, hasres) ==
    [dependents |-> st.dependents, solved |-> S, notes |-> st.notes]

\* setSolved for every x.i of S' (ascending): store and notify the resolver
RECURSIVE setSolvedAll(_, _, _, _)
setSolvedAll(st, S, keys, hasres) ==
    IF keys = <<>> THEN st
    ELSE LET i == Head(keys)
         IN  setSolvedAll([dependents |-> st.dependents,
                           solved     |-> MapPut(st.solved, i, S[i]),
                           notes      |-> IF hasres
                                          THEN Append(st.notes, <<i, GetConstantValue(S[i])>>)
                                          ELSE st.notes],
                          S, Tail(keys), hasres)

\* addEq(p, cont).  st = [dependents, solved, notes]; the result carries the
\* new solver state, the error ("nil" = none, "panic" = a Go panic) and the
\* state right before capsule harvesting (pre).
addEq(st, p, cont, caps, hasres, desc) ==
    LET fail(e, deps) ==
            LET s1 == [dependents |-> deps, solved |-> st.solved, notes |-> st.notes]
            IN  [st |-> s1, err |-> e, pre |-> s1, harvested |-> FALSE]
        done(s1) ==
            [st |-> IF cont THEN s1 ELSE harvestCapsules(s1, caps, hasres, desc),
             err |-> "nil", pre |-> s1, harvested |-> ~cont]
        \* b = [D, S]: D' and S' after "substitute solved"
        store(b) ==
            done(setSolvedAll([dependents |-> b.D, solved |-> st.solved,
                               notes |-> st.notes],
                              b.S, SortedSeq(DOMAIN b.S), hasres))
        \* a = [D, S]: D' and S' after "split solved x from D' off to S'"
        substitute(a) == store(substSolvedAll(a.D, a.S, SortedSeq(DOMAIN a.D)))
        \* u = the result of updateDependentVariables
        updated(u) ==
            IF u.err # "nil" THEN fail(u.err, u.deps)
            ELSE substitute(splitSolved(u.D, EmptyMap, SortedSeq(DOMAIN u.D)))
        activated(mc, act) ==
            IF mc.panic THEN fail("panic", st.dependents)
            ELSE IF act.err # "nil" THEN fail(act.err, st.dependents)
            ELSE updated(updateDependentVariables(st.dependents, mc.maxp, act.p))
        towards(p1, mc) == activated(mc, activateEquationTowards(mc.maxp, p1))
        ingest(p1, off) ==
            IF ~off.off THEN towards(p1, maxCoeff(p1, DOMAIN st.dependents, FALSE))
            ELSE IF ~Is0(off.coeff) THEN fail("ErrInconsistentEquation", st.dependents)
            ELSE done(st)
        start(p1) == ingest(p1, isOff(p1))
    IN  start(substituteSolved(0, Zap(p), st.solved))


\* what one call of addEq leaves in the trail of a call: the state it returned,
\* the state right before its harvest, whether it harvested, and its error
Step(one) ==
    [after |-> one.st, pre |-> one.pre, harvested |-> one.harvested, err |-> one.err]

RECURSIVE addEqsLoopMutant(_, _, _, _, _, _)
addEqsLoopMutant(r, plist, k, caps, hasres, desc) ==
    LET next(one) ==
            addEqsLoopMutant([st |-> one.st, err |-> one.err, pre |-> one.pre,
                              harvested |-> one.harvested,
                              sizes |-> Append(r.sizes, Cardinality(DOMAIN one.st.solved)),
                              done |-> r.done + 1,
                              trail |-> Append(r.trail, Step(one))],
                             plist, k + 1, caps, hasres, desc)
    IN  IF k > Len(plist) \/ r.err # "nil" THEN r
        ELSE next(addEq(r.st, plist[k], FALSE, caps, hasres, desc))

\* AddEqs(plist): every equation but the last is ingested with cont = true; the
\* first error ends the batch.  sizes collects |solved| after each ingestion,
\* trail what each call of addEq did.
RECURSIVE addEqsLoop(_, _, _, _, _, _)
addEqsLoop(r, plist, k, caps, hasres, desc) ==
    LET next(one) ==
            addEqsLoop([st |-> one.st, err |-> one.err, pre |-> one.pre,
                        harvested |-> one.harvested,
                        sizes |-> Append(r.sizes, Cardinality(DOMAIN one.st.solved)),
                        done |-> r.done + 1,
                        trail |-> Append(r.trail, Step(one))],
                       plist, k + 1, caps, hasres, desc)
    IN  IF k > Len(plist) \/ r.err # "nil" THEN r
        ELSE next(addEq(r.st, plist[k], k < Len(plist), caps, hasres, desc))

AddEqsOpMutant(st, plist, caps, hasres, desc) ==
    LET start == [st |-> st, err |-> "nil", pre |-> st, harvested |-> FALSE,
                  sizes |-> <<Cardinality(DOMAIN st.solved)>>, done |-> 0,
                  trail |-> <<>>]
    IN  IF Len(plist) = 0
        THEN [start EXCEPT !.st = harvestCapsules(st, caps, hasres, desc),
                           !.err = "ErrEmptyEquationList"]
        ELSE addEqsLoop(start, plist, 1, caps, hasres, desc)

AddEqsOp(st, plist, caps, hasres, desc) ==
    LET start == [st |-> st, err |-> "nil", pre |-> st, harvested |-> FALSE,
                  sizes |-> <<Cardinality(DOMAIN st.solved)>>, done |-> 0,
                  trail |-> <<>>]
    IN  IF Len(plist) = 0
        THEN [start EXCEPT !.err = "ErrEmptyEquationList"]
        ELSE addEqsLoop(start, plist, 1, caps, hasres, desc)

AddEqOp(st, p, caps, hasres, desc) ==
    LET call(one) ==
            [st |-> one.st, err |-> one.err, pre |-> one.pre, harvested |-> one.harvested,
             sizes |-> <<Cardinality(DOMAIN st.solved), Cardinality(DOMAIN one.st.solved)>>,
             done |-> 1, trail |-> <<Step(one)>>]
    IN  call(addEq(st, p, FALSE, caps, hasres, desc))

\* NewLinEqSolver
NewLinEqSolver == [dependents |-> EmptyMap, solved |-> EmptyMap, notes |-> <<>>]

\* ------------------------------------------------------------------------
\* Inputs of the solver: the equations 0 = p that a client may ingest
\* (variable ids 1 = a, 2 = b, 3 = c)
\* ------------------------------------------------------------------------

Eqs == <<
    New(R(6),   <<X(1, R(-1)), X(2, R(-1))>>),      \* a + b = 6
    New(R(2),   <<X(1, R(3)),  X(2, R(-1))>>),      \* b = 2 + 3a
    New(R(10),  <<X(1, R(-1))>>),                   \* a = 10
    New(R(9),   <<X(1, R(-2))>>),                   \* 2a = 9
    New(R(5),   <<X(1, R(-1)), X(2, R(-1))>>),      \* a + b = 5
    New(R(0),   <<X(2, R(-1)), X(3, R(1))>>),       \* b = c
    New(R(0),   <<X(3, R(-1)), X(1, R(1))>>),       \* c = a
    New(R(1),   <<X(3, R(-7))>>),                   \* 7c = 1
    New(R(0),   <<X(2, R(1)),  X(3, R(-4))>>),      \* b = 4c
    New(R(0),   <<X(1, R(2)),  X(2, R(-1)), X(3, R(1))>>)  \* 2a = b - c
>>

\* the most equations one behaviour ingests
MaxEqs == 3

\* ------------------------------------------------------------------------
\* jhobby: paths, validation and segmentation.  Coordinates are integers in
\* units of 10^-8, or one of the float values NaN and Inf.  A path is
\* [isnil, points, cycle, curls, predirs, postdirs]; arrays are sequences, the
\* Go index i being element i + 1.
\* ------------------------------------------------------------------------

\* _epsilon = 0.0000001, in units of 10^-8
_epsilon == 10

NaN == [kind |-> "NaN", x |-> 0, y |-> 0]

Inf == [kind |-> "Inf", x |-> 0, y |-> 0]

Pair(x, y) == [kind |-> "finite", x |-> x, y |-> y]

\* cmplx.IsNaN
IsNaN(c) == c.kind = "NaN"

\* cmplx.Abs(c1 - c2) <= _epsilon.  A difference with a NaN or an infinite
\* part has an absolute value of NaN or +Inf, and the comparison is false.
absDiffLeEpsilon(c1, c2) ==
    /\ c1.kind = "finite"
    /\ c2.kind = "finite"
    /\ (c1.x - c2.x) * (c1.x - c2.x) + (c1.y - c2.y) * (c1.y - c2.y)
          <= _epsilon * _epsilon

\* equal(c1, c2): |Phase(c1 - c2)| < _epsilon.  For the integer differences
\* of the model the phase is 0 exactly when the difference is zero or points
\* along the positive real axis.  Called with both arguments not NaN.
equal(c1, c2) == (c1.y - c2.y = 0) /\ (c1.x - c2.x >= 0)

\* getC(arr, i, deflt)
getC(arr, i, deflt) == IF i >= Len(arr) THEN deflt ELSE arr[i + 1]

\* extendC(arr, i, deflt)
extendC(arr, i, deflt) ==
    IF i >= Len(arr) THEN arr \o [k \in 1..(i - Len(arr) + 1) |-> deflt] ELSE arr

\* Controls.SetPreControl, Controls.SetPostControl
SetPreControl(ctrls, i, c) ==
    [ctrls EXCEPT !.prec = [extendC(ctrls.prec, i, NaN) EXCEPT ![i + 1] = c]]

SetPostControl(ctrls, i, c) ==
    [ctrls EXCEPT !.postc = [extendC(ctrls.postc, i, NaN) EXCEPT ![i + 1] = c]]

\* Controls.PreControl, Controls.PostControl
PreControl(ctrls, i) == getC(ctrls.prec, i, NaN)

PostControl(ctrls, i) == getC(ctrls.postc, i, NaN)

\* Path.N, Path.IsCycle, Path.Z
pathN(path) == Len(path.points)

pathIsCycle(path) == path.cycle

\* Go's i % n: the remainder takes the sign of i
rem(i, n) == IF i >= 0 THEN i % n ELSE -((-i) % n)

\* what a run-time panic "index out of range" leaves in place of a knot
OutOfRange == [kind |-> "panic", x |-> 0, y |-> 0]

pathZ(path, i) ==
    LET k == IF i < 0 \/ i >= pathN(path) THEN rem(i, pathN(path)) ELSE i
    IN  IF k < 0 THEN OutOfRange ELSE path.points[k + 1]

\* Path.PreDir, PostDir, PreCurl, PostCurl (a curl pair is <<pre, post>>)
PreDir(path, i) == getC(path.predirs, i, NaN)

PostDir(path, i) == getC(path.postdirs, i, NaN)

PreCurl(path, i) == getC(path.curls, i, <<1, 1>>)[1]

PostCurl(path, i) == getC(path.curls, i, <<1, 1>>)[2]

\* is a coordinate of z NaN or infinite?
invalidKnot(z) == z.kind # "finite"

ValidateForSolveInvalidFirst(path) ==
    IF path.isnil THEN "ErrNilPath"
    ELSE LET n == pathN(path)
         IN  IF \E i \in 0..(n - 1) : invalidKnot(path.points[i + 1])
             THEN "ErrInvalidKnot"
             ELSE IF pathIsCycle(path) /\ n < 3 THEN "ErrTooFewKnots"
             ELSE IF pathIsCycle(path)
                     /\ absDiffLeEpsilon(path.points[1], path.points[n])
             THEN "ErrCycleHasDuplicateTerminalKnot"
             ELSE IF ~pathIsCycle(path) /\ n < 2 THEN "ErrTooFewKnots"
             ELSE IF \E i \in 0..((IF pathIsCycle(path) THEN n ELSE n - 1) - 1) :
                        absDiffLeEpsilon(path.points[((i + 1) % n) + 1], path.points[i + 1])
             THEN "ErrDegenerateSegment"
             ELSE "nil"

ValidateForSolveNoDegenerate(path) ==
    IF path.isnil THEN "ErrNilPath"
    ELSE LET n == pathN(path)
         IN  IF pathIsCycle(path) /\ n < 3 THEN "ErrTooFewKnots"
             ELSE IF pathIsCycle(path)
                     /\ absDiffLeEpsilon(path.points[1], path.points[n])
             THEN "ErrCycleHasDuplicateTerminalKnot"
             ELSE IF ~pathIsCycle(path) /\ n < 2 THEN "ErrTooFewKnots"
             ELSE IF \E i \in 0..(n - 1) : invalidKnot(path.points[i + 1])
             THEN "ErrInvalidKnot"
             ELSE "nil"

\* Path.ValidateForSolve: the error it returns ("nil" = none)
ValidateForSolve(path) ==
    IF path.isnil THEN "ErrNilPath"
    ELSE LET n     == pathN(path)
             limit == IF pathIsCycle(path) THEN n ELSE n - 1
             j(i)  == IF pathIsCycle(path) THEN (i + 1) % n ELSE i + 1
         IN  IF pathIsCycle(path) /\ n < 3 THEN "ErrTooFewKnots"
             ELSE IF pathIsCycle(path)
                     /\ absDiffLeEpsilon(path.points[1], path.points[n])
             THEN "ErrCycleHasDuplicateTerminalKnot"
             ELSE IF ~pathIsCycle(path) /\ n < 2 THEN "ErrTooFewKnots"
             ELSE IF \E i \in 0..(n - 1) : invalidKnot(path.points[i + 1])
             THEN "ErrInvalidKnot"
             ELSE IF \E i \in 0..(limit - 1) :
                        absDiffLeEpsilon(path.points[j(i) + 1], path.points[i + 1])
             THEN "ErrDegenerateSegment"
             ELSE "nil"

\* isrough(path, i)
isrough(path, i) ==
    LET lc       == PreCurl(path, i)
        rc       == PostCurl(path, i)
        hascurl  == lc # 1 \/ rc # 1
        ld       == PreDir(path, i)
        rd       == PostDir(path, i)
        has2dirs == (~IsNaN(ld) /\ ~IsNaN(rd)) /\ ~equal(ld, rd)
    IN  hascurl \/ has2dirs

\* makePathSegment(path, from, to): a pathPartial, the path being implicit
makePathSegment(from, to) == [start |-> from, end |-> to]

\* last(path)
lastKnot(path) == pathN(path) - 1

\* the loop of splitSegments from knot i on
RECURSIVE splitLoop(_, _, _, _)
splitLoop(path, i, at, segments) ==
    IF i >= pathN(path) THEN [segments |-> segments, at |-> at]
    ELSE IF isrough(path, i)
         THEN splitLoop(path, i + 1, i, Append(segments, makePathSegment(at, i)))
         ELSE splitLoop(path, i + 1, at, segments)

RECURSIVE splitLoopNoRestart(_, _, _, _)
splitLoopNoRestart(path, i, at, segments) ==
    IF i >= pathN(path) THEN [segments |-> segments, at |-> at]
    ELSE IF isrough(path, i)
         THEN splitLoopNoRestart(path, i + 1, at, Append(segments, makePathSegment(at, i)))
         ELSE splitLoopNoRestart(path, i + 1, at, segments)

splitSegmentsNoRestart(path) ==
    LET l == splitLoopNoRestart(path, 1, 0, <<>>)
    IN  IF pathIsCycle(path)
        THEN IF Len(l.segments) = 0
             THEN Append(l.segments, makePathSegment(0, lastKnot(path)))
             ELSE Append(l.segments, makePathSegment(l.at, pathN(path)))
        ELSE IF l.at # lastKnot(path)
             THEN Append(l.segments, makePathSegment(l.at, lastKnot(path)))
             ELSE l.segments

\* splitSegments(path)
splitSegments(path) ==
    LET l == splitLoop(path, 1, 0, <<>>)
    IN  IF pathIsCycle(path)
        THEN IF Len(l.segments) = 0
             THEN Append(l.segments, makePathSegment(0, lastKnot(path)))
             ELSE Append(l.segments, makePathSegment(l.at, pathN(path)))
        ELSE IF l.at # lastKnot(path)
             THEN Append(l.segments, makePathSegment(l.at, lastKnot(path)))
             ELSE l.segments

\* pathPartial.N, IsCycle, pmap, Z, delta
ppN(pp) == pp.end - pp.start + 1

ppIsCycle(path, pp) == pathIsCycle(path) /\ pathN(path) = ppN(pp)

pmap(pp, i) == (i % ppN(pp)) + pp.start

ppZ(path, pp, i) ==
    IF ppIsCycle(path, pp) THEN pathZ(path, i) ELSE pathZ(path, pmap(pp, i))

\* validateSegment(seg): the error it returns; |seg.delta(i)| <= _epsilon is
\* |Z(i+1) - Z(i)| <= _epsilon
validateSegment(path, seg) ==
    IF path.isnil THEN "ErrNilPath"
    ELSE IF ppN(seg) < 2 THEN "ErrTooFewKnots"
    ELSE LET limit == IF ppIsCycle(path, seg) THEN ppN(seg) ELSE ppN(seg) - 1
         IN  IF \E i \in 0..(limit - 1) :
                    absDiffLeEpsilon(ppZ(path, seg, i + 1), ppZ(path, seg, i))
             THEN "ErrDegenerateSegment"
             ELSE "nil"

\* setControls(path, theta, controls): for i = 0 .. n-1 it stores the post
\* control of knot i at index i % n and the pre control of knot i + 1 at index
\* (i + 1) % n, n the knot count of the segment.  The value stored is tagged
\* with the segment and the knot it was computed for.
RECURSIVE setControlsLoop(_, _, _, _)
setControlsLoop(seg, k, i, controls) ==
    IF i >= ppN(seg) THEN controls
    ELSE LET n  == ppN(seg)
             c1 == SetPostControl(controls, i % n,
                                  [kind |-> "post", seg |-> k, knot |-> i])
             c2 == SetPreControl(c1, (i + 1) % n,
                                 [kind |-> "pre", seg |-> k, knot |-> i + 1])
         IN  setControlsLoop(seg, k, i + 1, c2)

setControls(seg, k, controls) == setControlsLoop(seg, k, 0, controls)

\* findSegmentControls(segment, controls): solve for theta (no state but the
\* local arrays u, v, w, theta), then setControls
findSegmentControls(seg, k, controls) == setControls(seg, k, controls)

\* ------------------------------------------------------------------------
\* The state machine
\* ------------------------------------------------------------------------

VARIABLES
    leq,      \* the LinEqSolver: [dependents, solved, notes]; notes = the
              \* SetVariableSolved messages the resolver has received, in order
    caps,     \* the variable ids for which the resolver's IsCapsule is true
    hist,     \* the ingestions so far: [eq, err] per equation handed to addEq
    last,     \* the last call: [op, err, before, pre, harvested, sizes, batch,
              \* trail]
    path,     \* the path handed to FindHobbyControls
    controls, \* the control container: [isnil, prec, postc]
    supplied, \* the container as it was when FindHobbyControls was called
    segments, \* the result of splitSegments
    segi,     \* the segment FindHobbyControls works on next (from 1)
    pc,       \* where FindHobbyControls stands: start, split, segment, done
    result,   \* what FindHobbyControls returned: [controls, err]
    call,     \* the last call of a method of Polynomial: operands, flags, what
              \* it returned and what the caller's operands hold afterwards
    touched   \* the tension sides <<"pre" or "post", i>> a setter has stored

leqVars == <<leq, caps, hist, last>>

hobbyVars == <<path, controls, supplied, segments, segi, pc, result>>

callVars == <<call, touched>>

vars == <<leqVars, hobbyVars, callVars>>

NilPath == [isnil |-> TRUE, points |-> <<>>, cycle |-> FALSE, curls |-> <<>>,
            predirs |-> <<>>, postdirs |-> <<>>, tensions |-> <<>>]

NilControls == [isnil |-> TRUE, prec |-> <<>>, postc |-> <<>>]

NoResult == [controls |-> "none", err |-> "nil"]

\* no method has been called yet
NothingCalled == [op |-> "none"]

CallIdle == call = NothingCalled /\ touched = {}

\* no call of FindHobbyControls is under way
HobbyIdle ==
    /\ path = NilPath
    /\ controls = NilControls
    /\ supplied = NilControls
    /\ segments = <<>>
    /\ segi = 0
    /\ pc = "idle"
    /\ result = NoResult

NoCall == [op |-> "none", err |-> "nil", before |-> NewLinEqSolver,
           pre |-> NewLinEqSolver, harvested |-> FALSE, sizes |-> <<0>>,
           batch |-> <<>>, trail |-> <<>>]

\* the orders in which `range counts` may visit the loners: with fewer than
\* two capsules there is only one
HarvestOrders == IF Cardinality(caps) > 1 THEN BOOLEAN ELSE {FALSE}

Init ==
    /\ leq = NewLinEqSolver
    /\ caps = {}
    /\ hist = <<>>
    /\ last = NoCall
    /\ HobbyIdle
    /\ CallIdle

\* leq.AddEq(Eqs[e]) with the resolver of the tests (no capsules)
AddEq(e) ==
    /\ Len(hist) < MaxEqs
    /\ \E desc \in HarvestOrders :
         LET returned(r) ==
                 /\ leq' = r.st
                 /\ hist' = Append(hist, [eq |-> e, err |-> r.err])
                 /\ last' = [op |-> "AddEq", err |-> r.err, before |-> leq,
                             pre |-> r.pre, harvested |-> r.harvested,
                             sizes |-> r.sizes, batch |-> <<e>>,
                             trail |-> r.trail]
         IN  returned(AddEqOp(leq, Eqs[e], caps, TRUE, desc))
    /\ UNCHANGED <<caps, hobbyVars, callVars>>

Next == \E e \in 1..Len(Eqs) : AddEq(e)

Spec == Init /\ [][Next]_vars

\* --- the solver behind a resolver that reports capsules --------------------

\* the sets of capsule ids the resolver may report
CapsChoices == {{}, {1}, {3}, {2, 3}}

\* the longest list handed to AddEqs
MaxBatch == 2

\* the equations ingested behind a resolver with capsules: a + b = 6, a = 10,
\* 2a = 9, a + b = 5, b = c, c = a
CapsuleEqs == {1, 3, 4, 5, 6, 7}

Batches == UNION {[1..n -> CapsuleEqs] : n \in 0..MaxBatch}

InitCaps ==
    /\ leq = NewLinEqSolver
    /\ caps \in CapsChoices
    /\ hist = <<>>
    /\ last = NoCall
    /\ HobbyIdle
    /\ CallIdle

\* leq.AddEqs(plist), plist = the equations Eqs[batch[1]], Eqs[batch[2]], ...
AddEqs(batch) ==
    /\ Len(hist) + Len(batch) <= MaxEqs
    /\ \E desc \in HarvestOrders :
         LET plist == [k \in 1..Len(batch) |-> Eqs[batch[k]]]
             returned(r) ==
                 /\ leq' = r.st
                 /\ hist' = hist \o [k \in 1..r.done |->
                                       [eq |-> batch[k],
                                        err |-> IF k < r.done THEN "nil" ELSE r.err]]
                 /\ last' = [op |-> "AddEqs", err |-> r.err, before |-> leq,
                             pre |-> r.pre, harvested |-> r.harvested,
                             sizes |-> r.sizes, batch |-> batch,
                             trail |-> r.trail]
         IN  returned(AddEqsOp(leq, plist, caps, TRUE, desc))
    /\ UNCHANGED <<caps, hobbyVars, callVars>>

NextCaps ==
    \/ \E e \in CapsuleEqs : AddEq(e)
    \/ \E batch \in Batches : AddEqs(batch)

SpecCaps == InitCaps /\ [][NextCaps]_vars

\* --- FindHobbyControls ------------------------------------------------------

\* the most knots of a path
MaxKnots == 3

\* the most knots of a path whose knots carry curls and directions
MaxSplitKnots == 4

\* knot positions: two of them closer than _epsilon, a NaN and an infinite one
Knots == {Pair(0, 0), Pair(6, 0), Pair(200, 0), Pair(200, 200), NaN, Inf}

\* what the builder may have stored for a knot: curls, pre- and post-direction
KnotStyles ==
    {[curls |-> <<1, 1>>, predir |-> NaN,        postdir |-> NaN],
     [curls |-> <<2, 1>>, predir |-> NaN,        postdir |-> NaN],
     [curls |-> <<1, 2>>, predir |-> NaN,        postdir |-> NaN],
     [curls |-> <<1, 1>>, predir |-> Pair(1, 0), postdir |-> NaN],
     [curls |-> <<1, 1>>, predir |-> Pair(1, 0), postdir |-> Pair(1, 0)],
     [curls |-> <<1, 1>>, predir |-> Pair(2, 0), postdir |-> Pair(1, 0)],
     [curls |-> <<1, 1>>, predir |-> Pair(1, 0), postdir |-> Pair(2, 0)],
     [curls |-> <<1, 1>>, predir |-> Pair(1, 0), postdir |-> Pair(0, 1)]}

\* a path of any geometry whose knots carry at most a curl
GeometryPath(pts, cyc, crl) ==
    [isnil    |-> FALSE,
     points   |-> pts,
     cycle    |-> cyc,
     curls    |-> crl,
     predirs  |-> [k \in 1..Len(pts) |-> NaN],
     postdirs |-> [k \in 1..Len(pts) |-> NaN],
     tensions |-> <<>>]

\* a path of n distinct knots along a zigzag, knot k in the style st[k]
StyledPath(n, cyc, st) ==
    [isnil    |-> FALSE,
     points   |-> [k \in 1..n |-> Pair(200 * k, 200 * (k % 2))],
     cycle    |-> cyc,
     curls    |-> [k \in 1..n |-> st[k].curls],
     predirs  |-> [k \in 1..n |-> st[k].predir],
     postdirs |-> [k \in 1..n |-> st[k].postdir],
     tensions |-> <<>>]

\* the containers a caller may supply: none, an empty one, one in use
OldControl == [kind |-> "old", seg |-> 0, knot |-> 0]

SuppliedControls ==
    {NilControls,
     [isnil |-> FALSE, prec |-> <<>>, postc |-> <<>>],
     [isnil |-> FALSE, prec |-> <<OldControl, OldControl>>, postc |-> <<OldControl>>]}

LeqIdle ==
    /\ leq = NewLinEqSolver
    /\ caps = {}
    /\ hist = <<>>
    /\ last = NoCall

InitHobby ==
    /\ LeqIdle
    /\ CallIdle
    /\ \/ path = NilPath /\ controls \in SuppliedControls
       \/ /\ \E n \in 0..MaxKnots :
               \E pts \in [1..n -> Knots], cyc \in BOOLEAN,
                  crl \in [1..n -> {<<1, 1>>, <<2, 1>>}] :
                  path = GeometryPath(pts, cyc, crl)
          /\ controls \in SuppliedControls
       \/ /\ \E n \in 2..MaxSplitKnots :
               \E cyc \in BOOLEAN, st \in [1..n -> KnotStyles] :
                  path = StyledPath(n, cyc, st)
          /\ controls = NilControls
    /\ supplied = controls
    /\ segments = <<>>
    /\ segi = 0
    /\ pc = "start"
    /\ result = NoResult

\* FindHobbyControls, first statement: path.ValidateForSolve()
ValidatePath ==
    /\ pc = "start"
    /\ LET err == ValidateForSolve(path)
       IN  IF err # "nil"
           THEN pc' = "done" /\ result' = [controls |-> "nil", err |-> err]
           ELSE pc' = "split" /\ UNCHANGED result
    /\ UNCHANGED <<leqVars, callVars, path, controls, supplied, segments, segi>>

\* FindHobbyControls: allocate the container if none was supplied, split
SplitPath ==
    /\ pc = "split"
    /\ controls' = IF controls.isnil
                   THEN [isnil |-> FALSE, prec |-> <<>>, postc |-> <<>>]
                   ELSE controls
    /\ segments' = splitSegments(path)
    /\ segi' = 1
    /\ IF Len(segments') > 0
       THEN pc' = "segment" /\ UNCHANGED result
       ELSE pc' = "done" /\ result' = [controls |-> "container", err |-> "nil"]
    /\ UNCHANGED <<leqVars, callVars, path, supplied>>

\* FindHobbyControls: one round of the loop over the segments
SolveSegment ==
    /\ pc = "segment"
    /\ LET segment == segments[segi]
           err     == validateSegment(path, segment)
       IN  IF err # "nil"
           THEN /\ pc' = "done"
                /\ result' = [controls |-> "nil", err |-> err]
                /\ UNCHANGED <<controls, segi>>
           ELSE /\ controls' = findSegmentControls(segment, segi, controls)
                /\ segi' = segi + 1
                /\ IF segi = Len(segments)
                   THEN pc' = "done" /\ result' = [controls |-> "container", err |-> "nil"]
                   ELSE pc' = "segment" /\ UNCHANGED result
    /\ UNCHANGED <<leqVars, callVars, path, supplied, segments>>

NextHobby == ValidatePath \/ SplitPath \/ SolveSegment

SpecHobby == InitHobby /\ [][NextHobby]_vars


\* ------------------------------------------------------------------------
\* Linear algebra over the ingested equations (the reference the solver is
\* compared with): determinants and Cramer's rule in exact arithmetic
\* ------------------------------------------------------------------------

\* the variables an equation mentions with a coefficient that is not zero
VarsOf(p) == {k \in DOMAIN p : k > 0 /\ ~Is0(p[k])}

HistOrder == [k \in 1..Len(hist) |-> hist[k].eq]

HistEqs == [k \in 1..Len(hist) |-> Eqs[hist[k].eq]]

HistVars == UNION {VarsOf(HistEqs[k]) : k \in 1..Len(hist)}

\* row k of the system  A x = b :  0 = c + sum a.i x.i  reads  sum a.i x.i = -c
CoefRow(p, vs) == [c \in 1..Len(vs) |-> GetCoeffForTerm(p, vs[c])]

Rhs(p) == RNeg(GetConstantValue(p))

\* M without row 1 and column c
Minor(M, c) ==
    [r \in 1..(Len(M) - 1) |->
        [k \in 1..(Len(M) - 1) |-> IF k < c THEN M[r + 1][k] ELSE M[r + 1][k + 1]]]

RECURSIVE Det(_)
RECURSIVE DetSum(_, _)
DetSum(M, c) ==
    IF c > Len(M) THEN R(0)
    ELSE RAdd(RMul(IF c % 2 = 1 THEN M[1][c] ELSE RNeg(M[1][c]), Det(Minor(M, c))),
              DetSum(M, c + 1))

Det(M) == IF Len(M) = 0 THEN R(1) ELSE DetSum(M, 1)

HistMatrix == LET vs == SortedSeq(HistVars)
              IN  [r \in 1..Len(hist) |-> CoefRow(HistEqs[r], vs)]

\* the matrix with column c replaced by the right-hand sides
HistMatrixWith(c) ==
    [r \in 1..Len(hist) |->
        [k \in 1..Len(hist) |-> IF k = c THEN Rhs(HistEqs[r]) ELSE HistMatrix[r][k]]]

\* n linearly independent equations over n variables
SquareIndependent ==
    /\ Len(hist) >= 1
    /\ Cardinality(HistVars) = Len(hist)
    /\ Det(HistMatrix).n # 0

\* the unique solution, per variable id
Solution ==
    LET vs == SortedSeq(HistVars)
    IN  [v \in HistVars |->
            LET c == CHOOSE k \in 1..Len(vs) : vs[k] = v
            IN  RDiv(Det(HistMatrixWith(c)), Det(HistMatrix))]

WithinEpsilon(x, y) == RLe(RAbs(RSub(x, y)), Epsilon)

AllSucceeded == \A k \in 1..Len(hist) : hist[k].err = "nil"

\* the value the resolver holds for variable v (the last message wins)
Notified(v) == \E k \in 1..Len(leq.notes) : leq.notes[k][1] = v

NotifiedValue(v) ==
    LET k == CHOOSE k \in 1..Len(leq.notes) :
                 /\ leq.notes[k][1] = v
                 /\ \A m \in (k + 1)..Len(leq.notes) : leq.notes[m][1] # v
    IN  leq.notes[k][2]

\* C1 (as stated): after ingesting n independent equations over n variables,
\* every variable is solved with the value of the unique solution within
\* epsilon, the resolver was told so, and no dependent equation is left.
C1SolvesSquareSystemsWithinEpsilon ==
    SquareIndependent =>
        /\ AllSucceeded
        /\ DOMAIN leq.dependents = {}
        /\ DOMAIN leq.solved = HistVars
        /\ \A v \in HistVars :
             /\ WithinEpsilon(GetConstantValue(leq.solved[v]), Solution[v])
             /\ Notified(v)
             /\ NotifiedValue(v) = GetConstantValue(leq.solved[v])

\* ------------------------------------------------------------------------
\* Claims about equation ingestion
\* ------------------------------------------------------------------------

\* C1 witness: a + b = 6 and b = 2 + 3a were ingested and gave a = 1, b = 5
C1Witness ==
    /\ SquareIndependent
    /\ HistOrder = <<1, 2>>
    /\ DOMAIN leq.dependents = {}
    /\ DOMAIN leq.solved = {1, 2}
    /\ GetConstantValue(leq.solved[1]) = R(1)
    /\ GetConstantValue(leq.solved[2]) = R(5)

\* c + sum a.i * S[i] for an equation all of whose variables are solved in S
RECURSIVE ResidueSum(_, _, _)
ResidueSum(p, S, keys) ==
    IF keys = <<>> THEN GetConstantValue(p)
    ELSE RAdd(RMul(p[Head(keys)], GetConstantValue(S[Head(keys)])),
              ResidueSum(p, S, Tail(keys)))

\* the last call was AddEq of an equation that the solved values of before
\* reduce to 0 = c with |c| > epsilon
DirectResidue ==
    /\ last.op = "AddEq"
    /\ LET p == Eqs[last.batch[1]]
       IN  /\ VarsOf(p) \subseteq DOMAIN last.before.solved
           /\ ~Is0(ResidueSum(p, last.before.solved, SortedSeq(VarsOf(p))))

\* C2: an equation that the solved values reduce to 0 = c, |c| > epsilon, is
\* refused with ErrInconsistentEquation (no panic), and every solved variable
\* keeps its value.
C2DirectResidueIsRefused ==
    DirectResidue =>
        /\ last.err = "ErrInconsistentEquation"
        /\ leq.solved = last.before.solved

\* C2 witness: a = 10 is solved, then 2a = 9 is refused
C2Witness ==
    /\ DirectResidue
    /\ last.err = "ErrInconsistentEquation"
    /\ DOMAIN last.before.solved # {}
    /\ leq.solved = last.before.solved

\* C3 (as stated): an ingestion that fails with ErrInconsistentEquation, from
\* the new equation directly or during propagation through the dependents,
\* leaves solved and dependents exactly as they were.
C3FailedIngestionLeavesStateUntouched ==
    last.err = "ErrInconsistentEquation" =>
        /\ leq.solved = last.before.solved
        /\ leq.dependents = last.before.dependents

\* C3 witness: an equation was refused for a residue that arose while it was
\* propagated through the dependents
C3Witness ==
    /\ last.err = "ErrInconsistentEquation"
    /\ ~DirectResidue
    /\ DOMAIN last.before.dependents # {}

\* the result of AddEq-ing the equations order[1], order[2], ... to st
RECURSIVE Replay(_, _)
Replay(st, order) ==
    IF order = <<>> THEN [st |-> st, ok |-> TRUE]
    ELSE LET r == AddEqOp(st, Eqs[Head(order)], {}, TRUE, FALSE)
         IN  IF r.err # "nil" THEN [st |-> r.st, ok |-> FALSE]
             ELSE Replay(r.st, Tail(order))

Orderings(n) == {f \in [1..n -> 1..n] : \A a, b \in 1..n : a # b => f[a] # f[b]}

\* C5 (as stated): a set of equations ingested in two different orders, every
\* ingestion succeeding and no capsules, yields the same solved mapping.
C5OrderIndependence ==
    (/\ caps = {}
     /\ AllSucceeded
     /\ \A a, b \in 1..Len(hist) : a # b => hist[a].eq # hist[b].eq)
    => \A f \in Orderings(Len(hist)) :
          LET other == Replay(NewLinEqSolver, [k \in 1..Len(hist) |-> HistOrder[f[k]]])
          IN  other.ok => other.st.solved = leq.solved

\* C5 witness: three equations were ingested successfully and another order of
\* them succeeds as well
C5Witness ==
    /\ Len(hist) = 3
    /\ AllSucceeded
    /\ \A a, b \in 1..Len(hist) : a # b => hist[a].eq # hist[b].eq
    /\ \E f \in Orderings(3) :
          /\ \E k \in 1..3 : f[k] # k
          /\ Replay(NewLinEqSolver, [k \in 1..3 |-> HistOrder[f[k]]]).ok

\* ------------------------------------------------------------------------
\* Claims about capsules and AddEqs
\* ------------------------------------------------------------------------

\* the number of equations of dependents and solved together that mention c
RefCount(st, c) ==
    Cardinality({w \in DOMAIN st.dependents : w = c \/ c \in VarsOf(st.dependents[w])})
    + (IF c \in DOMAIN st.solved THEN 1 ELSE 0)

\* the capsules that exactly one equation mentions
LonersOf(st) == {c \in caps : RefCount(st, c) = 1}

\* C4 (as stated): |solved| after an ingestion is at least |solved| before it,
\* for AddEq and for every equation of an AddEqs list, capsules or not.
C4SolvedNeverShrinks ==
    \A k \in 1..(Len(last.sizes) - 1) : last.sizes[k + 1] >= last.sizes[k]

\* C4 (amended): ingestion itself never removes a solved variable; only the
\* capsule harvest that ends a call does, and it removes loner capsules only.
\* Without capsules |solved| never decreases.
C4OnlyHarvestShrinksSolved ==
    /\ \A k \in 1..(Len(last.sizes) - 2) : last.sizes[k + 1] >= last.sizes[k]
    /\ DOMAIN last.before.solved \subseteq DOMAIN last.pre.solved
    /\ DOMAIN leq.solved \subseteq DOMAIN last.pre.solved
    /\ (DOMAIN last.pre.solved \ DOMAIN leq.solved) \subseteq LonersOf(last.pre)
    /\ caps = {} => C4SolvedNeverShrinks

\* C4 witness: the last equation of a list left |solved| smaller than the
\* equation before it did, a solved loner capsule having been harvested
C4Witness ==
    /\ last.op = "AddEqs"
    /\ last.harvested
    /\ \E k \in 1..(Len(last.sizes) - 1) : last.sizes[k + 1] < last.sizes[k]
    /\ (DOMAIN last.pre.solved \ DOMAIN leq.solved) # {}

\* C6: the harvest removes the loners from solved, the dependent equations
\* with a loner on the left and those with a loner on the right, and nothing
\* else; what it keeps is unchanged.
C6HarvestRemovesExactlyLoners ==
    last.harvested =>
        LET L    == LonersOf(last.pre)
            keep == {w \in DOMAIN last.pre.dependents :
                        w \notin L /\ VarsOf(last.pre.dependents[w]) \cap L = {}}
        IN  /\ leq.solved = [j \in DOMAIN last.pre.solved \ L |-> last.pre.solved[j]]
            /\ leq.dependents = [w \in keep |-> last.pre.dependents[w]]
            /\ leq.notes = last.pre.notes

\* C6 witness: a harvest met a loner on the right-hand side of a dependent
\* equation, a capsule that two equations mention, and an equation it kept
C6Witness ==
    /\ last.harvested
    /\ \E c \in LonersOf(last.pre) :
          \E w \in DOMAIN last.pre.dependents : c \in VarsOf(last.pre.dependents[w])
    /\ \E c \in caps : RefCount(last.pre, c) >= 2
    /\ DOMAIN leq.dependents # {}
    /\ leq.dependents # last.pre.dependents

\* C7: AddEqs with an empty list returns ErrEmptyEquationList, ingests nothing,
\* harvests nothing and leaves solved and dependents as they were.
C7EmptyListIsRefused ==
    (last.op = "AddEqs" /\ last.batch = <<>>) =>
        /\ last.err = "ErrEmptyEquationList"
        /\ leq = last.before
        /\ ~last.harvested
        /\ Len(last.sizes) = 1

\* C7 witness: the empty list was handed to a solver that holds a loner capsule,
\* which a harvest would have retracted
C7Witness ==
    /\ last.op = "AddEqs"
    /\ last.batch = <<>>
    /\ last.err = "ErrEmptyEquationList"
    /\ LonersOf(leq) # {}
    /\ leq = last.before

\* ------------------------------------------------------------------------
\* Claims about FindHobbyControls
\* ------------------------------------------------------------------------

Knot(p, i) == p.points[i + 1]

WithinEpsilonKnots(a, b) == absDiffLeEpsilon(a, b)

\* the error of the first failing check, in the order the claim gives
FirstFailingCheck(p) ==
    IF p.isnil THEN "ErrNilPath"
    ELSE IF (p.cycle /\ Len(p.points) < 3) \/ (~p.cycle /\ Len(p.points) < 2)
    THEN "ErrTooFewKnots"
    ELSE IF p.cycle /\ WithinEpsilonKnots(Knot(p, Len(p.points) - 1), Knot(p, 0))
    THEN "ErrCycleHasDuplicateTerminalKnot"
    ELSE IF \E i \in 0..(Len(p.points) - 1) : Knot(p, i).kind \in {"NaN", "Inf"}
    THEN "ErrInvalidKnot"
    ELSE IF \E i \in 0..(Len(p.points) - 2) : WithinEpsilonKnots(Knot(p, i), Knot(p, i + 1))
    THEN "ErrDegenerateSegment"
    ELSE "nil"

\* C8: FindHobbyControls returns the error of the first failing check in the
\* order nil path, too few knots, duplicate terminal knot of a cycle, invalid
\* coordinate, degenerate segment; a path that passes them all is solved,
\* segment by segment, without error.
C8ErrorOfFirstFailingCheck ==
    /\ pc = "done" =>
          /\ result.err = FirstFailingCheck(path)
          /\ result.err = "nil" =>
                (result.controls = "container" /\ segi = Len(segments) + 1)
    /\ pc \in {"split", "segment"} => FirstFailingCheck(path) = "nil"

\* C8 witness: a cycle whose last knot repeats the first and which also holds
\* an invalid knot is refused for the repeated knot
C8Witness ==
    /\ pc = "done"
    /\ result.err = "ErrCycleHasDuplicateTerminalKnot"
    /\ \E i \in 0..(Len(path.points) - 1) : Knot(path, i).kind \in {"NaN", "Inf"}

ControlsAsSupplied ==
    /\ controls.prec = supplied.prec
    /\ controls.postc = supplied.postc

\* C9: when FindHobbyControls returns an error the supplied container reads
\* as before; no control is written unless every check, of the whole path and
\* of each segment, passes.
C9ErrorLeavesControlsUntouched ==
    /\ result.err # "nil" => (ControlsAsSupplied /\ result.controls = "nil")
    /\ ~ControlsAsSupplied =>
          /\ ValidateForSolve(path) = "nil"
          /\ \A k \in 1..Len(segments) : validateSegment(path, segments[k]) = "nil"

\* C9 witness: an open path is refused for a degenerate segment that lies
\* behind a rough knot, after a first segment that is sound; the supplied
\* container is in use
C9Witness ==
    /\ pc = "done"
    /\ result.err = "ErrDegenerateSegment"
    /\ ~path.cycle
    /\ Len(path.points) = 3
    /\ isrough(path, 1)
    /\ ~WithinEpsilonKnots(Knot(path, 0), Knot(path, 1))
    /\ WithinEpsilonKnots(Knot(path, 1), Knot(path, 2))
    /\ supplied.prec # <<>>
    /\ ControlsAsSupplied

\* the segments the claim lists for an open path
OpenSegments(p) ==
    LET rough == {i \in 1..(Len(p.points) - 2) : isrough(p, i)}
        a     == <<0>> \o SortedSeq(rough) \o <<Len(p.points) - 1>>
    IN  [k \in 1..(Len(a) - 1) |-> [start |-> a[k], end |-> a[k + 1]]]

\* C10: for an open path of N >= 2 knots splitSegments returns the segments
\* [a0,a1], [a1,a2], ..., [a(k-1),ak] with a0 = 0, ak = N-1 and the interior
\* boundaries exactly the rough knots among 1..N-2, in order.
C10OpenPathSegments ==
    (segi >= 1 /\ ~path.cycle) => segments = OpenSegments(path)

\* C10 witness: an open path of four knots is split at both inner knots, one
\* rough by its curl and one by its two directions
C10Witness ==
    /\ segi >= 1
    /\ ~path.cycle
    /\ Len(path.points) = 4
    /\ PreCurl(path, 1) # 1
    /\ PreCurl(path, 2) = 1 /\ PostCurl(path, 2) = 1 /\ isrough(path, 2)
    /\ segments = <<[start |-> 0, end |-> 1], [start |-> 1, end |-> 2],
                    [start |-> 2, end |-> 3]>>

\* ------------------------------------------------------------------------
\* Segments of a cyclic path
\* ------------------------------------------------------------------------

\* findSegmentControls: the branch taken for a segment
solveMode(p, seg) == IF ppIsCycle(p, seg) THEN "solveCyclePath" ELSE "solveOpenPath"

\* the rough knots among 1..N-1
RoughKnots(p) == {i \in 1..(pathN(p) - 1) : isrough(p, i)}

\* the segments the claim lists for a cyclic path with rough knots
CyclicSegments(p) ==
    LET a == <<0>> \o SortedSeq(RoughKnots(p)) \o <<pathN(p)>>
    IN  [k \in 1..(Len(a) - 1) |-> [start |-> a[k], end |-> a[k + 1]]]

\* C11 (as stated): for a cyclic path of N >= 3 knots without a rough knot in
\* 1..N-1 splitSegments returns the one segment [0, N-1], which reports
\* IsCycle() = true; otherwise it returns [0,r1], [r1,r2], ..., [rk,N] and
\* every segment reports IsCycle() = false and is solved as an open segment.
C11CyclicPathSegments ==
    (segi >= 1 /\ path.cycle /\ pathN(path) >= 3) =>
        IF RoughKnots(path) = {}
        THEN /\ segments = <<[start |-> 0, end |-> pathN(path) - 1]>>
             /\ ppIsCycle(path, segments[1])
        ELSE /\ segments = CyclicSegments(path)
             /\ \A k \in 1..Len(segments) :
                    /\ ~ppIsCycle(path, segments[k])
                    /\ solveMode(path, segments[k]) = "solveOpenPath"

\* C11 witness: a cyclic path of three knots, rough at knot 1 only, was split
\* into [0,1] and [1,3] and both segments have been solved
C11Witness ==
    /\ pc = "done"
    /\ result.err = "nil"
    /\ path.cycle
    /\ pathN(path) = 3
    /\ RoughKnots(path) = {1}
    /\ segments = <<[start |-> 0, end |-> 1], [start |-> 1, end |-> 3]>>
    /\ segi = 3

\* ------------------------------------------------------------------------
\* Where the controls of a segment are stored
\* ------------------------------------------------------------------------

\* the joins of a segment: N for the cycle, N - 1 for an open segment
Joins(p, seg) == IF ppIsCycle(p, seg) THEN ppN(seg) ELSE ppN(seg) - 1

\* the segments FindHobbyControls has solved so far
SolvedSegments ==
    IF pc = "segment" \/ (pc = "done" /\ result.err = "nil")
    THEN 1..(segi - 1)
    ELSE {}

\* C12 (as stated): the post-control of the local join j of a segment
\* [start, end] is stored at index start + j of the container and the
\* pre-control of that join at index start + j + 1 (modulo N), so no two
\* segments of one solve write the same post or the same pre index: every such
\* index still holds what its segment stored there.
C12SegmentControlsAtParentIndex ==
    \A k \in SolvedSegments :
        \A j \in 0..(Joins(path, segments[k]) - 1) :
            /\ PostControl(controls, (segments[k].start + j) % pathN(path))
                   = [kind |-> "post", seg |-> k, knot |-> j]
            /\ PreControl(controls, (segments[k].start + j + 1) % pathN(path))
                   = [kind |-> "pre", seg |-> k, knot |-> j + 1]

\* C12 witness: an open path of three knots, split at knot 1, has been solved
\* in two segments
C12Witness ==
    /\ pc = "done"
    /\ result.err = "nil"
    /\ ~path.cycle
    /\ segments = <<[start |-> 0, end |-> 1], [start |-> 1, end |-> 2]>>
    /\ SolvedSegments = {1, 2}

\* ------------------------------------------------------------------------
\* package polyn: calls of the methods of Polynomial by a client.  A call
\* yields what the method returns (ret, err) and what the caller's operands
\* hold afterwards (recv = the receiver, arg = the argument).
\* ------------------------------------------------------------------------

assignTermsMutant(p, p1, destructive) == p1

\* `if destructive { p.terms = p1.terms }`: the receiver p of the method is a
\* copy of the caller's struct, so the assignment replaces the map of that copy
\* only; the caller's polynomial keeps the map it had.
assignTerms(p, p1, destructive) == p

\* p.Add(p2, destructive), p.Subtract(p2, destructive)
addOrSubCall(p, p2, doAdd, destructive) ==
    LET returned(p1) ==
            [ret |-> p1, err |-> "nil",
             recv |-> assignTerms(p, p1, destructive), arg |-> p2]
    IN  returned(addOrSub(p, p2, doAdd))

\* p.Multiply(p2, destructive)
MultiplyCall(p, p2, destructive) ==
    LET returned(m) ==
            [ret |-> m.p, err |-> m.err,
             recv |-> IF m.err # "nil" THEN p ELSE assignTerms(p, m.p, destructive),
             arg |-> p2]
    IN  returned(Multiply(p, p2))

\* p.Divide(p2, destructive)
DivideCall(p, p2, destructive) ==
    LET returned(m) ==
            [ret |-> m.p, err |-> m.err,
             recv |-> IF m.err # "nil" THEN p ELSE assignTerms(p, m.p, destructive),
             arg |-> p2]
    IN  returned(Divide(p, p2))

\* p.Zap(): the deletions act on the map the caller's polynomial holds
ZapCall(p) == [ret |-> Zap(p), recv |-> Zap(p)]

\* the largest key of a polynomial of the catalogue
MaxKey == 2

\* polynomials New(c, X{i, a}...) with coefficients 0, -3 and 1/4000 (whose
\* square is within Epsilon)
Coeffs == {R(0), R(-3), Rat(1, 4000)}

Polys == UNION {[K \cup {0} -> Coeffs] : K \in SUBSET (1..MaxKey)}

\* polynomials with coefficients at and next to the tolerance (Epsilon and
\* 1.5 Epsilon) and with equal magnitudes; key 0 may be absent, as after
\* Polynomial{}.SetTerm(i, a)
EdgeCoeffs == {Epsilon, Rat(3, 2 * EpsDen), R(-3), R(3)}

EdgePolys == UNION {[K -> EdgeCoeffs] : K \in SUBSET (0..MaxKey)}

\* the dependents handed to maxCoeff: nil, or a map with these keys
Dependents ==
    {[isnil |-> TRUE, keys |-> {}]}
        \cup {[isnil |-> FALSE, keys |-> K] : K \in SUBSET (1..MaxKey)}

\* the operands of one call
InitPolyn ==
    /\ LeqIdle
    /\ HobbyIdle
    /\ touched = {}
    /\ \/ \E p \in Polys, p2 \in Polys, d \in BOOLEAN :
            call = [op |-> "none", arity |-> 2, p |-> p, p2 |-> p2, destructive |-> d]
       \/ \E p \in Polys \cup EdgePolys, deps \in Dependents :
            call = [op |-> "none", arity |-> 1, p |-> p, dependents |-> deps]

Called(op, r) ==
    [op |-> op, p |-> call.p, p2 |-> call.p2, destructive |-> call.destructive,
     ret |-> r.ret, err |-> r.err, recv |-> r.recv, arg |-> r.arg]

CallAdd ==
    /\ call.op = "none" /\ call.arity = 2
    /\ call' = Called("Add", addOrSubCall(call.p, call.p2, TRUE, call.destructive))
    /\ UNCHANGED <<leqVars, hobbyVars, touched>>

CallSubtract ==
    /\ call.op = "none" /\ call.arity = 2
    /\ call' = Called("Subtract", addOrSubCall(call.p, call.p2, FALSE, call.destructive))
    /\ UNCHANGED <<leqVars, hobbyVars, touched>>

CallMultiply ==
    /\ call.op = "none" /\ call.arity = 2
    /\ call' = Called("Multiply", MultiplyCall(call.p, call.p2, call.destructive))
    /\ UNCHANGED <<leqVars, hobbyVars, touched>>

CallDivide ==
    /\ call.op = "none" /\ call.arity = 2
    /\ call' = Called("Divide", DivideCall(call.p, call.p2, call.destructive))
    /\ UNCHANGED <<leqVars, hobbyVars, touched>>

\* q := p.Zap(); r := q.Zap()
CallZap ==
    /\ call.op = "none" /\ call.arity = 1
    /\ call' = [op |-> "Zap", p |-> call.p, ret |-> ZapCall(call.p).ret,
                recv |-> ZapCall(call.p).recv,
                again |-> ZapCall(ZapCall(call.p).ret).ret]
    /\ UNCHANGED <<leqVars, hobbyVars, touched>>

CallMaxCoeff ==
    /\ call.op = "none" /\ call.arity = 1
    /\ LET returned(m) ==
               call' = [op |-> "maxCoeff", p |-> call.p, dependents |-> call.dependents,
                        maxp |-> m.maxp, coeff |-> m.coeff, panic |-> m.panic]
       IN  returned(maxCoeff(call.p, call.dependents.keys, call.dependents.isnil))
    /\ UNCHANGED <<leqVars, hobbyVars, touched>>

NextPolyn ==
    \/ CallAdd
    \/ CallSubtract
    \/ CallMultiply
    \/ CallDivide
    \/ CallZap
    \/ CallMaxCoeff

SpecPolyn == InitPolyn /\ [][NextPolyn]_vars

\* ------------------------------------------------------------------------
\* Multiply and Divide
\* ------------------------------------------------------------------------

\* the operand whose coefficients a product scales, and the constant
Scaled == IF IsConstant(call.p2).isconst THEN call.p ELSE call.p2

Scalar == IF IsConstant(call.p2).isconst THEN IsConstant(call.p2).c
                                         ELSE IsConstant(call.p).c

\* every coefficient of ret is the coefficient of operand times c
ScaledExactly(ret, operand, c) ==
    \A k \in DOMAIN operand \cup DOMAIN ret :
        GetCoeffForTerm(ret, k) = RMul(GetCoeffForTerm(operand, k), c)

\* the same, but a product within Epsilon of zero is not stored (key 0 is
\* stored in any case, then with the value 0)
ScaledAndZapped(ret, operand, c) ==
    /\ DOMAIN ret = {k \in DOMAIN operand : ~Is0(RMul(operand[k], c))} \cup {0}
    /\ \A k \in DOMAIN ret :
           ret[k] = IF Is0(RMul(GetCoeffForTerm(operand, k), c))
                    THEN R(0)
                    ELSE RMul(operand[k], c)

\* when the call of Multiply or Divide fails, and that it then changes nothing
ErrorsOfProduct ==
    /\ call.op = "Multiply" =>
           /\ call.err \in {"nil", "ErrNonConstantProduct"}
           /\ call.err = "ErrNonConstantProduct"
                  <=> (~IsConstant(call.p).isconst /\ ~IsConstant(call.p2).isconst)
    /\ call.op = "Divide" =>
           /\ call.err \in {"nil", "ErrIllegalDivisor"}
           /\ call.err = "ErrIllegalDivisor"
                  <=> (~IsConstant(call.p2).isconst \/ Is0(IsConstant(call.p2).c))
    /\ (call.op \in {"Multiply", "Divide"} /\ call.err # "nil") =>
           (call.recv = call.p /\ call.arg = call.p2)

C15DestructiveAltersReceiver ==
    (call.op \in {"Add", "Subtract", "Multiply"} /\ call.destructive /\ call.err = "nil") =>
        call.recv = call.ret

\* C15 witness: a destructive Add whose sum differs from the receiver
C15Witness ==
    /\ call.op = "Add"
    /\ call.destructive
    /\ call.ret # call.p

\* ------------------------------------------------------------------------
\* Zap
\* ------------------------------------------------------------------------

\* C16: Zap removes every stored term with |c| <= epsilon, then stores key 0
\* (with value 0 if it was absent or removed), leaves every other stored
\* coefficient as it was, and Zap(Zap(p)) = Zap(p).
C16ZapDropsWithinEpsilonAndIsIdempotent ==
    call.op = "Zap" =>
        /\ \A k \in DOMAIN call.p :
               RLe(RAbs(call.p[k]), Epsilon) => (k = 0 \/ k \notin DOMAIN call.ret)
        /\ 0 \in DOMAIN call.ret
        /\ (0 \notin DOMAIN call.p \/ RLe(RAbs(call.p[0]), Epsilon)) => call.ret[0] = R(0)
        /\ \A k \in DOMAIN call.p :
               ~RLe(RAbs(call.p[k]), Epsilon)
                   => (k \in DOMAIN call.ret /\ call.ret[k] = call.p[k])
        /\ DOMAIN call.ret \subseteq DOMAIN call.p \cup {0}
        /\ call.again = call.ret

\* C16 witness: a polynomial without key 0 whose x.1 has the coefficient
\* epsilon and whose x.2 has 1.5 epsilon: x.1 is removed, x.2 kept, key 0 added
C16Witness ==
    /\ call.op = "Zap"
    /\ DOMAIN call.p = {1, 2}
    /\ call.p[1] = Epsilon
    /\ call.p[2] = Rat(3, 2 * EpsDen)
    /\ DOMAIN call.ret = {0, 2}
    /\ call.ret[0] = R(0)
    /\ call.ret[2] = call.p[2]
    /\ call.again = call.ret

\* ------------------------------------------------------------------------
\* maxCoeff
\* ------------------------------------------------------------------------

\* the keys i > 0 of p with a coefficient that is not zero
NonZeroKeys(p) == {k \in DOMAIN p : k > 0 /\ p[k].n # 0}

\* the smallest key among those of the largest |a.i| in a set of keys
LargestOf(p, keys) ==
    CHOOSE k \in keys :
        \A j \in keys :
            \/ RLt(RAbs(p[j]), RAbs(p[k]))
            \/ (RAbs(p[j]) = RAbs(p[k]) /\ k <= j)

\* C17: maxCoeff(p, dependents) returns the key i > 0 with the largest |a.i|
\* among the keys that are not keys of dependents, or among all keys i > 0 if
\* no such key has a non-zero coefficient; of equal maxima the smallest key;
\* the coefficient returned is the signed a.i; it panics when no key i > 0 has
\* a non-zero coefficient.
C17MaxCoeffPicksLargestFreeKey ==
    call.op = "maxCoeff" =>
        LET free == NonZeroKeys(call.p) \ call.dependents.keys
            pool == IF free # {} THEN free ELSE NonZeroKeys(call.p)
        IN  IF NonZeroKeys(call.p) = {}
            THEN call.panic
            ELSE /\ ~call.panic
                 /\ call.maxp = LargestOf(call.p, pool)
                 /\ call.coeff = call.p[call.maxp]

\* C17 witness: x.1 and x.2 have coefficients of equal magnitude and opposite
\* sign, x.1 is a dependent: x.2 is returned with its negative coefficient
C17Witness ==
    /\ call.op = "maxCoeff"
    /\ DOMAIN call.p = {0, 1, 2}
    /\ call.p[1] = R(3)
    /\ call.p[2] = R(-3)
    /\ call.dependents = [isnil |-> FALSE, keys |-> {1}]
    /\ call.maxp = 2
    /\ call.coeff = R(-3)

\* ------------------------------------------------------------------------
\* jhobby: building a path.  A tension pair is <<pre, post>>.
\* ------------------------------------------------------------------------

\* Nullpath()
Nullpath == [isnil |-> FALSE, points |-> <<>>, cycle |-> FALSE, curls |-> <<>>,
             predirs |-> <<>>, postdirs |-> <<>>, tensions |-> <<>>]

\* Path.PreTension, Path.PostTension
PreTension(p, i) == getC(p.tensions, i, <<R(1), R(1)>>)[1]

PostTension(p, i) == getC(p.tensions, i, <<R(1), R(1)>>)[2]

clampTensionMutant(t) == IF RLt(R(4), t) THEN R(4) ELSE t

\* "if tension < 0.75 { 0.75 } else if tension > 4.0 { 4.0 }"
clampTension(t) ==
    IF RLt(t, Rat(3, 4)) THEN Rat(3, 4)
    ELSE IF RLt(R(4), t) THEN R(4)
    ELSE t

\* Path.SetPreTension, Path.SetPostTension
SetPreTension(p, i, tension) ==
    LET ts == extendC(p.tensions, i, <<R(1), R(1)>>)
    IN  [p EXCEPT !.tensions = [ts EXCEPT ![i + 1] = <<clampTension(tension), ts[i + 1][2]>>]]

SetPostTension(p, i, tension) ==
    LET ts == extendC(p.tensions, i, <<R(1), R(1)>>)
    IN  [p EXCEPT !.tensions = [ts EXCEPT ![i + 1] = <<ts[i + 1][1], clampTension(tension)>>]]

\* Path.SetPreCurl, Path.SetPostCurl
SetPreCurl(p, i, curl) ==
    LET cs == extendC(p.curls, i, <<1, 1>>)
    IN  [p EXCEPT !.curls = [cs EXCEPT ![i + 1] = <<curl, cs[i + 1][2]>>]]

SetPostCurl(p, i, curl) ==
    LET cs == extendC(p.curls, i, <<1, 1>>)
    IN  [p EXCEPT !.curls = [cs EXCEPT ![i + 1] = <<cs[i + 1][1], curl>>]]

\* Path.Knot, Path.SmoothKnot
SmoothKnot(p, z) == [p EXCEPT !.points = Append(p.points, z)]

\* Path.TensionCurve (on a path with a knot)
TensionCurve(p, t1, t2) ==
    LET p1 == IF t1 # R(1) THEN SetPostTension(p, pathN(p) - 1, t1) ELSE p
    IN  IF t2 # R(1) THEN SetPreTension(p1, pathN(p), t2) ELSE p1

\* Path.Curve
Curve(p) == TensionCurve(p, R(1), R(1))

\* Path.Line
Line(p) == SetPreCurl(SetPostCurl(p, pathN(p) - 1, 1), pathN(p), 1)

\* the most knots a client adds, and the largest index it hands to a setter
MaxBuilt == 1

\* the tensions a client asks for: below 3/4, neutral, inside the range, above 4
Tensions == {R(-2), R(1), R(2), R(5)}

InitBuilder ==
    /\ LeqIdle
    /\ CallIdle
    /\ path = Nullpath
    /\ controls = NilControls
    /\ supplied = NilControls
    /\ segments = <<>>
    /\ segi = 0
    /\ pc = "idle"
    /\ result = NoResult

BuilderFrame == UNCHANGED <<leqVars, call, controls, supplied, segments, segi, pc, result>>

BuildKnot ==
    /\ pathN(path) < MaxBuilt
    /\ path' = SmoothKnot(path, Pair(200 * pathN(path), 200 * (pathN(path) % 2)))
    /\ UNCHANGED touched
    /\ BuilderFrame

\* Curve and Line panic on an empty path
BuildCurve ==
    /\ pathN(path) > 0
    /\ path' = Curve(path)
    /\ UNCHANGED touched
    /\ BuilderFrame

BuildLine ==
    /\ pathN(path) > 0
    /\ path' = Line(path)
    /\ UNCHANGED touched
    /\ BuilderFrame

BuildTensionCurve ==
    /\ pathN(path) > 0
    /\ \E t1 \in Tensions, t2 \in Tensions :
         /\ path' = TensionCurve(path, t1, t2)
         /\ touched' = touched
                \cup (IF t1 # R(1) THEN {<<"post", pathN(path) - 1>>} ELSE {})
                \cup (IF t2 # R(1) THEN {<<"pre", pathN(path)>>} ELSE {})
    /\ BuilderFrame

CallSetPreTension ==
    /\ \E i \in 0..MaxBuilt, t \in Tensions :
         /\ path' = SetPreTension(path, i, t)
         /\ touched' = touched \cup {<<"pre", i>>}
    /\ BuilderFrame

CallSetPostTension ==
    /\ \E i \in 0..MaxBuilt, t \in Tensions :
         /\ path' = SetPostTension(path, i, t)
         /\ touched' = touched \cup {<<"post", i>>}
    /\ BuilderFrame

NextBuilder ==
    \/ BuildKnot
    \/ BuildCurve
    \/ BuildLine
    \/ BuildTensionCurve
    \/ CallSetPreTension
    \/ CallSetPostTension

SpecBuilder == InitBuilder /\ [][NextBuilder]_vars

\* ------------------------------------------------------------------------
\* Tensions
\* ------------------------------------------------------------------------

InTensionRange(t) == RLe(Rat(3, 4), t) /\ RLe(t, R(4))

pi == 314159265

pi2 == 628318530

\* reduceAngle(a)
reduceAngle(a) ==
    IF (IF a < 0 THEN -a ELSE a) > pi
    THEN IF a > 0 THEN a - pi2 ELSE a + pi2
    ELSE a

\* the largest index, of either sign, handed to Z
MaxIndex == 7

\* Nullpath().Knot(z0).Curve().Knot(z1)... with n distinct knots
BuiltPath(n) ==
    [Nullpath EXCEPT !.points = [k \in 1..n |-> Pair(200 * k, 200 * (k % 2))]]

\* angles around -3 pi, -2 pi, -pi, 0, pi, 2 pi and 3 pi, and 10 radians
Angles ==
    {m * pi + e : m \in -3..3, e \in {-1, 0, 1}} \cup {1000000000, -1000000000}

InitUtil ==
    /\ LeqIdle
    /\ touched = {}
    /\ \E n \in 1..MaxKnots, c \in BOOLEAN : path = [BuiltPath(n) EXCEPT !.cycle = c]
    /\ controls = NilControls
    /\ supplied = NilControls
    /\ segments = <<>>
    /\ segi = 0
    /\ pc = "idle"
    /\ result = NoResult
    /\ \/ \E i \in (-MaxIndex)..MaxIndex : call = [op |-> "none", arity |-> 2, i |-> i]
       \/ \E a \in Angles : call = [op |-> "none", arity |-> 1, a |-> a]

\* path.Z(i) and path.Z(i + path.N())
CallZ ==
    /\ call.op = "none"
    /\ call.arity = 2
    /\ call' = [op |-> "Z", i |-> call.i, z |-> pathZ(path, call.i),
                again |-> pathZ(path, call.i + pathN(path))]
    /\ UNCHANGED <<leqVars, hobbyVars, touched>>

CallReduceAngle ==
    /\ call.op = "none"
    /\ call.arity = 1
    /\ call' = [op |-> "reduceAngle", a |-> call.a, ret |-> reduceAngle(call.a)]
    /\ UNCHANGED <<leqVars, hobbyVars, touched>>

NextUtil ==
    \/ CallZ
    \/ CallReduceAngle

SpecUtil == InitUtil /\ [][NextUtil]_vars

\* ------------------------------------------------------------------------
\* Index access modulo N
\* ------------------------------------------------------------------------

\* C19: for a path with N >= 1 knots and every integer index i, Z(i) returns
\* the stored knot z_(i mod N), with i mod N in 0..N-1; in particular
\* Z(i) = Z(i + N).
C19ZIndexesModuloN ==
    call.op = "Z" =>
        /\ call.z = path.points[(call.i % pathN(path)) + 1]
        /\ call.z = call.again

\* C19 witness: Z(-1) on a path of three knots does not return a knot, while
\* Z(-3) and Z(4) return z_0 and z_1
C19Witness ==
    /\ call.op = "Z"
    /\ pathN(path) = 3
    /\ call.i = -1
    /\ call.z = OutOfRange
    /\ call.again = path.points[3]
    /\ pathZ(path, -3) = path.points[1]
    /\ pathZ(path, 4) = path.points[2]

\* ------------------------------------------------------------------------
\* Angle reduction
\* ------------------------------------------------------------------------

\* C20: for any angle a, reduceAngle(a) lies in the half-open interval
\* (-pi, pi] and differs from a by an integer multiple of 2*pi.
C20ReduceAngleInHalfOpenRange ==
    call.op = "reduceAngle" =>
        /\ -pi < call.ret
        /\ call.ret <= pi
        /\ \E m \in -4..4 : call.ret = call.a + m * pi2

\* C20 witness: an angle of 10 radians is reduced once and stays above pi
C20Witness ==
    /\ call.op = "reduceAngle"
    /\ call.a = 1000000000
    /\ call.ret = 1000000000 - pi2
    /\ call.ret > pi

\* ------------------------------------------------------------------------
\* Harvesting and errors within a call
\* ------------------------------------------------------------------------

\* C22: capsule harvesting runs only at the end of a batch: AddEq harvests
\* after its equation; AddEqs with k equations harvests exactly once, after the
\* k-th, and never between, so that a capsule only one equation mentions after
\* equation j < k is still there when equation j + 1 is ingested.
C22HarvestOnlyAtEndOfBatch ==
    (last.op \in {"AddEq", "AddEqs"} /\ last.err = "nil") =>
        LET k == Len(last.batch)
        IN  /\ Len(last.trail) = k
            /\ \A j \in 1..(k - 1) :
                  /\ ~last.trail[j].harvested
                  /\ last.trail[j].after = last.trail[j].pre
                  /\ \A c \in LonersOf(last.trail[j].pre) :
                        RefCount(last.trail[j].after, c) = 1
            /\ last.trail[k].harvested
            /\ last.trail[k].after = leq
            /\ leq.solved = [j \in DOMAIN last.trail[k].pre.solved \ LonersOf(last.trail[k].pre)
                               |-> last.trail[k].pre.solved[j]]

\* C22 witness: a list of two equations succeeded; after the first a capsule
\* was mentioned by one equation only and was kept, and the harvest after the
\* second retracted a capsule
C22Witness ==
    /\ last.op = "AddEqs"
    /\ Len(last.batch) = 2
    /\ last.err = "nil"
    /\ LonersOf(last.trail[1].after) # {}
    /\ last.trail[2].harvested
    /\ DOMAIN leq.solved # DOMAIN last.trail[2].pre.solved

\* the state the solver was in when the j-th call of addEq of the last call began
Entering(j) == IF j = 1 THEN last.before ELSE last.trail[j - 1].after

\* C23 (as stated): if the j-th equation of an AddEqs list fails, AddEqs returns
\* that error at once: what equations 1..j-1 left in solved and dependents is
\* kept, equations j+1.. are never ingested, and no harvest runs.
C23FailureEndsBatchKeepingEarlierEffects ==
    (last.op = "AddEqs" /\ last.err \notin {"nil", "ErrEmptyEquationList"}) =>
        LET j == Len(last.trail)
        IN  /\ j <= Len(last.batch)
            /\ last.trail[j].err = last.err
            /\ \A k \in 1..(j - 1) : last.trail[k].err = "nil"
            /\ \A k \in 1..j : ~last.trail[k].harvested
            /\ leq.solved = Entering(j).solved
            /\ leq.dependents = Entering(j).dependents

\* C23 witness: the second equation of a list failed and the dependents that
\* the first had stored are no longer what they were
C23Witness ==
    /\ last.op = "AddEqs"
    /\ Len(last.batch) = 2
    /\ Len(last.trail) = 2
    /\ last.err = "ErrInconsistentEquation"
    /\ last.before.dependents = EmptyMap
    /\ DOMAIN last.trail[1].after.dependents # {}
    /\ leq.dependents # last.trail[1].after.dependents
    /\ leq.solved = last.trail[1].after.solved

\* ------------------------------------------------------------------------
\* Panics
\* ------------------------------------------------------------------------

\* C24 (as stated): in any sequence of AddEq and AddEqs calls, calls after a
\* returned error included, no call panics; every failure is a returned error.
C24NoCallPanics ==
    /\ last.err # "panic"
    /\ \A k \in 1..Len(hist) : hist[k].err # "panic"

\* C24 witness: a call panicked on a solver whose previous call had returned
\* ErrInconsistentEquation
C24Witness ==
    /\ Len(hist) >= 2
    /\ hist[Len(hist)].err = "panic"
    /\ hist[Len(hist) - 1].err = "ErrInconsistentEquation"

\* ------------------------------------------------------------------------
\* Soundness of the equation store
\* ------------------------------------------------------------------------

\* values tried for the variables a, b, c
Values == {R(0), R(1), R(4), R(5), R(6), R(10)}

Assignments == [1..3 -> Values]

\* c + sum a.i * x.i under the assignment x
RECURSIVE EvalSum(_, _, _)
EvalSum(p, x, keys) ==
    IF keys = <<>> THEN GetConstantValue(p)
    ELSE RAdd(RMul(p[Head(keys)], x[Head(keys)]), EvalSum(p, x, Tail(keys)))

Eval(p, x) == EvalSum(p, x, SortedSeq(DOMAIN p \ {0}))

\* x satisfies every equation that was ingested successfully
Satisfies(x) ==
    \A k \in 1..Len(hist) : hist[k].err = "nil" => Eval(Eqs[hist[k].eq], x).n = 0

\* x satisfies x.i = c for every solved entry and x.j = q for every dependent
AgreesWithStore(st, x) ==
    /\ \A i \in DOMAIN st.solved : Is0(RSub(x[i], GetConstantValue(st.solved[i])))
    /\ \A j \in DOMAIN st.dependents : Is0(RSub(x[j], Eval(st.dependents[j], x)))

\* C25 (as stated): after any sequence of AddEq calls, successful or failing
\* and without capsules, every entry of solved and of dependents follows from
\* the successfully ingested equations: every assignment that satisfies those
\* equations satisfies the entry, within epsilon.
C25StoreFollowsFromIngestedEquations ==
    \A x \in Assignments : Satisfies(x) => AgreesWithStore(leq, x)

\* C25 witness: a call failed, and the assignment a = 1, b = 5, c = 5 satisfies
\* what was ingested successfully but not a dependent equation of the store
C25Witness ==
    LET x == <<R(1), R(5), R(5)>>
    IN  /\ Len(hist) >= 2
        /\ hist[Len(hist)].err = "ErrInconsistentEquation"
        /\ Satisfies(x)
        /\ \E j \in DOMAIN leq.dependents : ~Is0(RSub(x[j], Eval(leq.dependents[j], x)))

\* ------------------------------------------------------------------------
\* The solver over four variables (4 = d), for longer sequences of AddEq
\* ------------------------------------------------------------------------

WideEqs == <<
    New(R(6),   <<X(1, R(-1)), X(2, R(-1)), X(4, R(-1))>>),   \* a + b + d = 6
    New(R(0),   <<X(2, R(1)),  X(3, R(-4))>>),                \* b = 4c
    New(R(0),   <<X(2, R(-1)), X(3, R(1))>>),                 \* b = c
    New(R(10),  <<X(1, R(-1))>>),                             \* a = 10
    New(R(6),   <<X(1, R(-1)), X(2, R(-1))>>),                \* a + b = 6
    New(R(1),   <<X(4, R(-1))>>)                              \* d = 1
>>

\* the most equations one behaviour over four variables ingests
MaxWide == 4

\* leq.AddEq(WideEqs[e]) with the resolver of the tests (no capsules); hist
\* holds the index into WideEqs
AddEqWide(e) ==
    /\ Len(hist) < MaxWide
    /\ LET returned(r) ==
               /\ leq' = r.st
               /\ hist' = Append(hist, [eq |-> e, err |-> r.err])
               /\ last' = [op |-> "AddEq", err |-> r.err, before |-> leq,
                           pre |-> r.pre, harvested |-> r.harvested,
                           sizes |-> r.sizes, batch |-> <<e>>,
                           trail |-> r.trail]
       IN  returned(AddEqOp(leq, WideEqs[e], caps, TRUE, FALSE))
    /\ UNCHANGED <<caps, hobbyVars, callVars>>

NextWide == \E e \in 1..Len(WideEqs) : AddEqWide(e)

SpecWide == Init /\ [][NextWide]_vars

\* ------------------------------------------------------------------------
\* Solved and dependent variables
\* ------------------------------------------------------------------------

\* C26 (as stated): after every successful AddEq on a solver that has only seen successful
\* ingestions, no variable is both solved and the left-hand side of a
\* dependent equation.
C26SolvedAndDependentsDisjoint ==
    (last.op = "AddEq" /\ AllSucceeded) =>
        DOMAIN leq.solved \cap DOMAIN leq.dependents = {}

\* C26 witness: four equations were ingested successfully; the last one made a
\* variable that was solved before the left-hand side of a dependent equation
C26Witness ==
    /\ last.op = "AddEq"
    /\ AllSucceeded
    /\ Len(hist) = 4
    /\ \E i \in DOMAIN last.before.solved :
          /\ i \notin DOMAIN last.before.dependents
          /\ i \in DOMAIN leq.solved \cap DOMAIN leq.dependents

\* C27: after every successful AddEq on a solver that has only seen successful
\* ingestions, no solved variable occurs with a non-zero coefficient in the
\* right-hand side of a dependent equation.
C27NoSolvedVariableInDependents ==
    (last.op = "AddEq" /\ AllSucceeded) =>
        \A j \in DOMAIN leq.dependents :
            VarsOf(leq.dependents[j]) \cap DOMAIN leq.solved = {}

\* C27 witness: a successful AddEq solved a variable that the right-hand side
\* of a dependent mentioned before, and that dependent is still a dependent
C27Witness ==
    /\ last.op = "AddEq"
    /\ AllSucceeded
    /\ \E j \in DOMAIN leq.dependents \cap DOMAIN last.before.dependents :
          VarsOf(last.before.dependents[j]) \cap DOMAIN leq.solved # {}

\* the SetVariableSolved messages the resolver has received for variable i
NotesOf(st, i) == {k \in 1..Len(st.notes) : st.notes[k][1] = i}

\* C28 (as stated): once a variable is in solved with value c, every later
\* AddEq or AddEqs call, successful or failing, leaves solved[i] = c unless a
\* capsule is retracted, and the resolver never receives a second
\* SetVariableSolved for i.
C28SolvedValuesAreFinal ==
    caps = {} =>
        /\ \A i \in DOMAIN last.before.solved :
              /\ i \in DOMAIN leq.solved
              /\ leq.solved[i] = last.before.solved[i]
        /\ \A i \in DOMAIN leq.solved : Cardinality(NotesOf(leq, i)) <= 1

\* C28 witness: a successful AddEq stored a new value for a variable that was
\* solved before, and the resolver has been told twice
C28Witness ==
    /\ caps = {}
    /\ last.op = "AddEq"
    /\ AllSucceeded
    /\ \E i \in DOMAIN last.before.solved :
          /\ leq.solved[i] # last.before.solved[i]
          /\ Cardinality(NotesOf(leq, i)) = 2

\* ------------------------------------------------------------------------
\* Comparing directions
\* ------------------------------------------------------------------------

\* the path p with the pre- and post-direction of knot i (from 0) exchanged
Exchanged(p, i) ==
    [p EXCEPT !.predirs[i + 1] = p.postdirs[i + 1],
              !.postdirs[i + 1] = p.predirs[i + 1]]

\* C29 (as stated): the comparison of directions is symmetric: for specified
\* directions p and q, equal(p, q) = equal(q, p); so exchanging the pre- and
\* post-direction of a knot changes neither whether the knot is rough nor the
\* segments that splitSegments produces.
C29DirectionComparisonIsSymmetric ==
    pc = "segment" =>
        \A i \in 0..(pathN(path) - 1) :
            /\ (~IsNaN(PreDir(path, i)) /\ ~IsNaN(PostDir(path, i)))
                  => equal(PreDir(path, i), PostDir(path, i))
                        = equal(PostDir(path, i), PreDir(path, i))
            /\ isrough(Exchanged(path, i), i) = isrough(path, i)
            /\ splitSegments(Exchanged(path, i)) = segments

\* C29 witness: a knot with pre-direction (2, 0) and post-direction (1, 0) is
\* not rough and the path is one segment; with the two exchanged it is rough
\* and the path splits there
C29Witness ==
    /\ pc = "segment"
    /\ ~pathIsCycle(path)
    /\ pathN(path) = 3
    /\ PreDir(path, 1) = Pair(2, 0)
    /\ PostDir(path, 1) = Pair(1, 0)
    /\ ~isrough(path, 1)
    /\ isrough(Exchanged(path, 1), 1)
    /\ Len(segments) = 1
    /\ Len(splitSegments(Exchanged(path, 1))) = 2

\* ------------------------------------------------------------------------
\* Completeness of the controls of an open path
\* ------------------------------------------------------------------------

\* C30 (as stated): after FindHobbyControls has succeeded on an open path of N
\* knots, whatever its rough knots, the container holds a known entry post[i]
\* and pre[i + 1] for every join i in 0..N-2.
C30OpenPathControlsComplete ==
    (pc = "done" /\ result.err = "nil" /\ ~pathIsCycle(path)) =>
        \A i \in 0..(pathN(path) - 2) :
            /\ ~IsNaN(PostControl(controls, i))
            /\ ~IsNaN(PreControl(controls, i + 1))

\* C30 witness: an open path of three knots, rough at knot 1, has been solved
\* in two segments into a container that was empty, and pre[2] is unknown
C30Witness ==
    /\ pc = "done"
    /\ result.err = "nil"
    /\ ~pathIsCycle(path)
    /\ pathN(path) = 3
    /\ segments = <<[start |-> 0, end |-> 1], [start |-> 1, end |-> 2]>>
    /\ supplied.prec = <<>>
    /\ ~IsNaN(PostControl(controls, 0))
    /\ ~IsNaN(PostControl(controls, 1))
    /\ ~IsNaN(PreControl(controls, 1))
    /\ IsNaN(PreControl(controls, 2))

====
